---- MODULE Spec2Model ----
(***************************************************************************)
(* A model of the KB newspaper pipeline (src/src/01-scrape-images.py) and  *)
(* of the Drive upload utility (src/src/drive_utils.py): the remote store, *)
(* the local download directory, the retry decorator, the retrying         *)
(* downloader, and the per-issue download/upload loop.                     *)
(***************************************************************************)
EXTENDS Integers, Sequences, FiniteSets, TLC

(* ------------------------------ bounds --------------------------------- *)
\* fragments handed to scrape_by_date_range in one run
MaxFragments == 2
\* calls (a download, an upload, a folder lookup, ...) that meet failures in a run;
\* a call that meets one may fail on each of its attempts
MaxFaults == 2
\* largest retry_count a directly constructed scraper is given
MaxRetryCount == 3
\* direct calls of download_file on one scraper, and direct get-or-create folder
\* calls on one Drive service
MaxCalls == 2

(* ------------------------- program constants --------------------------- *)
\* retry(max_attempts=5, initial_delay=1, backoff_factor=2)
RetryMaxAttempts == 5
RetryInitialDelay == 1
RetryBackoffFactor == 2
\* KBNewspaperScraper.__init__(retry_count=3)
DefaultRetryCount == 3
\* time.sleep(2) between download attempts
DownloadDelay == 2

(* ------------------------------ values --------------------------------- *)
\* Python's None where an id is expected; `if parent_id:` is false for it
NoId == -1
\* the id of the Drive root, the parent of an object created without parents
RootId == 0
TOP_FOLDER_NAME == "newspapers"
SHARED_EMAIL == "recipient"
Titles == {"Dagens Nyheter"}
Dates == {"1865-01-02"}
Filenames == {"p1.jp2", "p2.jp2"}
\* asset locations: a directory part and the basename
Urls == [dir : {"iiif"}, name : Filenames]
Issues == [title : Titles, date : Dates]
NoIssue == [title |-> "", date |-> ""]
\* local paths {download_root}/{title}/{date}/{filename}
Paths == [title : Titles, date : Dates, name : Filenames]
\* contents are pairs <<asset, state>>
Absent == <<"-", "absent">>
\* bytes that differ from every served or truncated content
Garbled == <<"-", "garbled">>
FolderContent == <<"-", "folder">>

\* Path(unquote(file_url)).name
UrlFilename(url) == url.name
\* the complete bytes the asset endpoint serves for a location
Served(url) == <<url.name, "complete">>
\* what a stream cut short leaves on disk
Truncated(url) == <<url.name, "partial">>
\* compute_md5: a digest that tells different contents apart
compute_md5(content) == <<"md5", content>>
\* uploaded_file.get("md5Checksum") when the response carries none
NoMd5 == <<"none", Absent>>

Url(name) == [dir |-> "iiif", name |-> name]
\* what extract_jp2_from_manifest_data may return for an issue: nothing (no asset,
\* or the fetch failed), one asset, two assets
Manifests == {<<>>, <<Url("p1.jp2")>>, <<Url("p1.jp2"), Url("p2.jp2")>>}

\* Optional[...] values: None, or a value
None == [some |-> FALSE, val |-> <<>>]
Some(v) == [some |-> TRUE, val |-> v]
\* no search result, no response, no call made yet
NoSearchResult == [date |-> None, title |-> None, inner_html |-> None]
NoResponse == [status |-> "none", data |-> [shape |-> "no_items", items |-> <<>>]]
NoReturn == [fn |-> "none", raised |-> "none", val |-> <<>>]
Callers == {1, 2}
Caller(pos, seen, id, n, overlap) == [pos |-> pos, seen |-> seen, id |-> id, n |-> n, overlap |-> overlap]
NoCallers == [c \in Callers |-> Caller("idle", "none", NoId, 0, FALSE)]

VARIABLES
    drive,            \* the remote store: folders and files
    nextId,           \* the id the store gives its next object
    perms,            \* permissions granted: [file, email, role, n]
    local_files,      \* path -> content of the local file, or Absent
    local_dirs,       \* local directories made
    pc,               \* position of the running program
    retry_count,      \* self.retry_count
    top_id,           \* newspapers_folder_id / self.drive_parent_folder_id
    frag_count,       \* fragments consumed by the loop of scrape_by_date_range
    processed_issues, \* the list scrape_by_date_range returns
    issue,            \* the issue download_newspaper_issue works on
    jp2_urls,         \* the resolver's list for it
    idx,              \* position of the asset loop in jp2_urls (1-based)
    success_count,
    outcome,          \* per asset: pending, skipped, verified, verified_kept, failed
    title_folder_id,
    date_folder_id,
    result,           \* what download_newspaper_issue returned
    dl_attempt,       \* the loop variable `attempt` of download_file
    dl_result,        \* what download_file returned
    dl_requests,      \* requests.get calls of the current download_file call
    dl_sleeps,        \* the delays it slept
    dl_errors,        \* the kind of exception each failed attempt raised
    r_attempt,        \* the loop variable `attempt` of wrapper_retry
    r_delay,          \* its variable `delay`
    r_calls,          \* calls of the wrapped function in the current wrapper call
    r_sleeps,         \* the delays it slept
    ret,              \* how the last call of the wrapped function ended
    api,              \* the network and store calls made by the last step
    faults,           \* calls that met a failure so far
    faulty,           \* the call under way has met one
    resolved,         \* folder keys a get-or-create returned for in this run
    create_called,    \* folder keys a create-folder call was made for in this run
    uploads,          \* <<folder, filename, how>>: how the upload attempts made ended
    dl_log,           \* direct download_file calls: what each found and did
    folder_cache,     \* GoogleDriveUploader.folder_cache: <<cache key, folder id>>
    call,             \* the direct get-or-create call under way, and its number
    results,          \* how many search results the page holds
    frag_log,         \* per result consumed: the issue made of it and how its sync ended
    search_result,    \* the search result handed to the extraction under check
    response,         \* what the manifest endpoint answers to the resolver under check
    returned,         \* what the function under check returned, or the exception it let out
    callers           \* two callers of a folder get-or-create: where each stands and what it saw

storeVars == <<drive, nextId, perms>>
fsVars == <<local_files, local_dirs>>
runVars == <<retry_count, top_id, frag_count, processed_issues>>
issueVars == <<issue, jp2_urls, idx, success_count, outcome, title_folder_id, date_folder_id, result>>
dlVars == <<dl_attempt, dl_result, dl_requests, dl_sleeps, dl_errors>>
retryVars == <<r_attempt, r_delay, r_calls, r_sleeps, ret>>
histVars == <<resolved, create_called, uploads, dl_log>>
faultVars == <<faults, faulty>>
folderVars == <<folder_cache, call>>
pageVars == <<results, frag_log>>
pureVars == <<search_result, response, returned, callers>>
vars == <<storeVars, fsVars, pc, runVars, issueVars, dlVars, retryVars, api, faultVars, histVars, folderVars, pageVars,
          pureVars>>

(* --------------------------- the remote store -------------------------- *)
Folder(id, name, parent) == [id |-> id, kind |-> "folder", name |-> name, parent |-> parent, content |-> FolderContent, copy |-> 1]
\* the program never reads the id of a file: files of the same name, parent and
\* content are told apart by a copy number
File(copy, name, parent, content) == [id |-> NoId, kind |-> "file", name |-> name, parent |-> parent, content |-> content, copy |-> copy]
Copies(name, parent, content) == Cardinality({o \in drive : o.kind = "file" /\ o.name = name /\ o.parent = parent /\ o.content = content})
Files == {o \in drive : o.kind = "file"}
Folders == {o \in drive : o.kind = "folder"}
\* files().create adds an object; the program calls neither files().update nor
\* files().delete
Create_Replacing(obj) == {o \in drive : ~(o.kind = obj.kind /\ o.name = obj.name /\ o.parent = obj.parent)} \cup {obj}
Create(obj) == drive \cup {obj}
\* files().create puts an object without parents under the root
ParentOf(parent_id) == IF parent_id = NoId THEN RootId ELSE parent_id

\* files().list(q="mimeType=folder and name=... [and parent in parents]")
FolderQuery_NoMatch(name, parent_id) == {}
FolderQuery(name, parent_id) == {o \in drive : o.kind = "folder" /\ o.name = name /\ (parent_id = NoId \/ o.parent = parent_id)}

\* a direct get-or-create call: which implementation, and its arguments
FolderCall(fn, name, parent, n) == [fn |-> fn, name |-> name, parent |-> parent, n |-> n]
NoCall == FolderCall("none", "", NoId, 0)

\* files().list(q="name=... and folder in parents"): any kind of object
FileQuery_NoMatch(name, folder_id) == {}
FileQuery(name, folder_id) == {o \in drive : o.name = name /\ o.parent = folder_id}

(* ------------------------------ failures ------------------------------ *)
\* an attempt fails: the network, the disk or the store may fail MaxFaults calls
Fault == IF faulty THEN faults' = faults ELSE faults < MaxFaults /\ faults' = faults + 1
NoFault == faults' = faults

(* --------------------------- the retry decorator ----------------------- *)
Returned(v) == [kind |-> "value", val |-> v]
Raised == [kind |-> "raise", val |-> NoId]
Retrying == [kind |-> "retry", val |-> NoId]
NoRet == [kind |-> "none", val |-> NoId]

\* attempt == max_attempts - 1: the exception is re-raised
IsLastAttempt_First(attempt) == attempt = 0
IsLastAttempt(attempt) == attempt = RetryMaxAttempts - 1

\* delay *= backoff_factor
NextDelay_Fixed(delay) == delay
NextDelay(delay) == delay * RetryBackoffFactor

RetryCalls == IF r_attempt = 0 THEN 1 ELSE r_calls + 1
RetrySleeps == IF r_attempt = 0 THEN <<>> ELSE r_sleeps

\* wrapper_retry: the wrapped function returned v
RetryReturn(v) ==
    /\ ret' = Returned(v)
    /\ r_attempt' = 0
    /\ r_delay' = RetryInitialDelay
    /\ r_calls' = RetryCalls
    /\ r_sleeps' = RetrySleeps
    /\ faulty' = FALSE

\* wrapper_retry: the wrapped function raised
RetryExcept ==
    /\ r_calls' = RetryCalls
    /\ IF IsLastAttempt(r_attempt)
       THEN /\ ret' = Raised
            /\ r_attempt' = 0
            /\ r_delay' = RetryInitialDelay
            /\ r_sleeps' = RetrySleeps
            /\ faulty' = FALSE
       ELSE /\ r_sleeps' = Append(RetrySleeps, r_delay)
            /\ IF r_attempt + 1 < RetryMaxAttempts
               THEN /\ ret' = Retrying
                    /\ r_attempt' = r_attempt + 1
                    /\ r_delay' = NextDelay(r_delay)
                    /\ faulty' = TRUE
               ELSE \* range(max_attempts) is used up: the wrapper returns None
                    /\ ret' = Returned(NoId)
                    /\ r_attempt' = 0
                    /\ r_delay' = RetryInitialDelay
                    /\ faulty' = FALSE

(* ----------------------- get_or_create_drive_folder -------------------- *)
\* one call of the function under wrapper_retry
get_or_create_drive_folder(folder_name, parent_id) ==
    \/ \* files().list raises
       /\ Fault
       /\ RetryExcept
       /\ api' = <<"list">>
       /\ UNCHANGED <<drive, nextId, create_called>>
    \/ \* the query finds a folder: files[0]
       /\ \E f \in FolderQuery(folder_name, parent_id) : RetryReturn(f.id)
       /\ NoFault
       /\ api' = <<"list">>
       /\ UNCHANGED <<drive, nextId, create_called>>
    \/ \* nothing found and files().create raises, before the store made the folder
       \* or after it
       /\ FolderQuery(folder_name, parent_id) = {}
       /\ Fault
       /\ RetryExcept
       /\ api' = <<"list", "create_folder">>
       /\ create_called' = create_called \cup {<<parent_id, folder_name>>}
       /\ \/ UNCHANGED <<drive, nextId>>
          \/ /\ drive' = Create(Folder(nextId, folder_name, ParentOf(parent_id)))
             /\ nextId' = nextId + 1
    \/ \* nothing found: the folder is created
       /\ FolderQuery(folder_name, parent_id) = {}
       /\ drive' = Create(Folder(nextId, folder_name, ParentOf(parent_id)))
       /\ nextId' = nextId + 1
       /\ RetryReturn(nextId)
       /\ NoFault
       /\ api' = <<"list", "create_folder">>
       /\ create_called' = create_called \cup {<<parent_id, folder_name>>}

(* ----------------------------- share_drive_folder ---------------------- *)
\* permissions().create: the store keeps every grant it is asked for, the n-th of
\* one recipient on one file as a permission of its own
Permission(folder_id, email, n) == [file |-> folder_id, email |-> email, role |-> "writer", n |-> n]
PermissionsOf(folder_id, email) == {p \in perms : p.file = folder_id /\ p.email = email}
Grant(folder_id, email) == perms \cup {Permission(folder_id, email, Cardinality(PermissionsOf(folder_id, email)) + 1)}

\* is_folder_shared_with
is_folder_shared_with_Never(folder_id, email) == FALSE
is_folder_shared_with(folder_id, email) == \E p \in perms : p.file = folder_id /\ p.email = email

\* one call of share_drive_folder under wrapper_retry
share_drive_folder(folder_id, email) ==
    \/ \* permissions().list raises
       /\ Fault
       /\ RetryExcept
       /\ api' = <<"list_permissions">>
       /\ UNCHANGED perms
    \/ /\ is_folder_shared_with(folder_id, email)
       /\ NoFault
       /\ RetryReturn(NoId)
       /\ api' = <<"list_permissions">>
       /\ UNCHANGED perms
    \/ \* permissions().create raises, before the store granted the permission or
       \* after it
       /\ ~is_folder_shared_with(folder_id, email)
       /\ Fault
       /\ RetryExcept
       /\ api' = <<"list_permissions", "grant_permission">>
       /\ \/ UNCHANGED perms
          \/ perms' = Grant(folder_id, email)
    \/ /\ ~is_folder_shared_with(folder_id, email)
       /\ perms' = Grant(folder_id, email)
       /\ NoFault
       /\ RetryReturn(NoId)
       /\ api' = <<"list_permissions", "grant_permission">>

(* ------------------------------ the current asset ---------------------- *)
CurUrl == jp2_urls[idx]
CurName == UrlFilename(CurUrl)
\* folder_path / filename, folder_path = download_dir / title / date
CurPath == [title |-> issue.title, date |-> issue.date, name |-> CurName]
CurDir == [title |-> issue.title, date |-> issue.date]
CurKey == <<date_folder_id, CurName>>

(* ------------------------------- download_file ------------------------- *)
\* filepath.exists()
PathExists_Never(path) == FALSE
PathExists(path) == local_files[path] # Absent

\* attempt < self.retry_count - 1: sleep and try again, else re-raise
ShouldRetryDownload_OffByOne(attempt) == attempt < retry_count
ShouldRetryDownload(attempt) == attempt < retry_count - 1

\* download_file up to the retry loop
DownloadFileEnter ==
    /\ pc = "dl_start"
    /\ UNCHANGED folderVars
    /\ UNCHANGED pageVars
    /\ UNCHANGED pureVars
    /\ dl_attempt' = 0
    /\ dl_requests' = 0
    /\ dl_sleeps' = <<>>
    /\ dl_errors' = <<>>
    /\ api' = <<>>
    /\ IF PathExists(CurPath)
       THEN dl_result' = "True" /\ pc' = "dl_ret"
       ELSE IF retry_count <= 0
            THEN \* range(retry_count) is empty: the function ends without a return
                 dl_result' = "None" /\ pc' = "dl_ret"
            ELSE dl_result' = "pending" /\ pc' = "dl_try"
    /\ UNCHANGED <<storeVars, fsVars, runVars, issueVars, retryVars, faultVars, histVars>>

\* the except clause of the retry loop, for a RequestException or Timeout
DownloadExcept ==
    IF ShouldRetryDownload(dl_attempt)
    THEN /\ dl_sleeps' = Append(dl_sleeps, DownloadDelay)
         /\ dl_attempt' = dl_attempt + 1
         /\ IF dl_attempt + 1 < retry_count
            THEN dl_result' = dl_result /\ pc' = pc /\ faulty' = TRUE
            ELSE dl_result' = "None" /\ pc' = "dl_ret" /\ faulty' = FALSE
    ELSE \* re-raised, caught by the outer except: return False
         /\ dl_sleeps' = dl_sleeps
         /\ dl_attempt' = dl_attempt
         /\ dl_result' = "False"
         /\ pc' = "dl_ret"
         /\ faulty' = FALSE

\* the file was opened with 'wb' and the loop over iter_content was cut short:
\* no except branch removes it
Interrupted_Removed(files, path, url) == [files EXCEPT ![path] = Absent]
Interrupted(files, path, url) == [files EXCEPT ![path] = Truncated(url)]

\* one pass of the retry loop of download_file
DownloadFileAttempt ==
    /\ pc = "dl_try"
    /\ UNCHANGED folderVars
    /\ UNCHANGED pageVars
    /\ UNCHANGED pureVars
    /\ dl_requests' = dl_requests + 1
    /\ \/ \* the response is streamed to the file
          /\ NoFault
          /\ api' = <<"get_asset", "iter_content">>
          /\ faulty' = FALSE
          /\ local_files' = [local_files EXCEPT ![CurPath] = Served(CurUrl)]
          /\ local_dirs' = local_dirs \cup {CurDir}
          /\ dl_result' = "True"
          /\ pc' = "dl_ret"
          /\ UNCHANGED <<dl_attempt, dl_sleeps, dl_errors>>
       \/ \* requests.get or raise_for_status raises a RequestException
          /\ Fault
          /\ api' = <<"get_asset">>
          /\ UNCHANGED fsVars
          /\ dl_errors' = Append(dl_errors, "RequestException")
          /\ DownloadExcept
       \/ \* iter_content raises a RequestException after the file was opened
          /\ Fault
          /\ api' = <<"get_asset", "iter_content">>
          /\ local_files' = Interrupted(local_files, CurPath, CurUrl)
          /\ local_dirs' = local_dirs \cup {CurDir}
          /\ dl_errors' = Append(dl_errors, "RequestException")
          /\ DownloadExcept
       \/ \* mkdir, open or write raises an OSError: not retried, return False
          /\ Fault
          /\ \E opened \in BOOLEAN :
                IF opened
                THEN /\ local_files' = Interrupted(local_files, CurPath, CurUrl)
                     /\ local_dirs' = local_dirs \cup {CurDir}
                     /\ api' = <<"get_asset", "iter_content">>
                ELSE UNCHANGED fsVars /\ api' = <<"get_asset">>
          /\ dl_result' = "False"
          /\ pc' = "dl_ret"
          /\ faulty' = FALSE
          /\ dl_errors' = Append(dl_errors, "OSError")
          /\ UNCHANGED <<dl_attempt, dl_sleeps>>
    /\ UNCHANGED <<storeVars, runVars, issueVars, retryVars, histVars>>

(* ------------------------------ upload_to_drive ------------------------ *)
\* local_md5 != remote_md5 raises ValueError
ChecksumOk(local_md5, remote_md5) == local_md5 = remote_md5

\* one call of upload_to_drive under wrapper_retry
upload_to_drive(file_path, file_name, folder_id) ==
    \/ \* get_drive_service or files().create raises
       /\ Fault
       /\ RetryExcept
       /\ api' = <<"upload">>
       /\ uploads' = uploads \cup {<<folder_id, file_name, "error">>}
       /\ UNCHANGED <<drive, nextId>>
    \/ \* the object is created, with the bytes sent or with others; the store
       \* answers with its md5Checksum, or without one
       \E how \in {"sent", "garbled", "unreported"} :
          LET stored == IF how = "garbled" THEN Garbled ELSE local_files[file_path]
              local_md5 == compute_md5(local_files[file_path])
              remote_md5 == IF how = "unreported" THEN NoMd5 ELSE compute_md5(stored)
              copy == Copies(file_name, ParentOf(folder_id), stored) + 1
          IN  /\ drive' = Create(File(copy, file_name, ParentOf(folder_id), stored))
              /\ nextId' = nextId
              /\ api' = <<"upload">>
              /\ IF ChecksumOk(local_md5, remote_md5)
                 THEN /\ uploads' = uploads \cup {<<folder_id, file_name, "match">>}
                      /\ RetryReturn(copy)
                 ELSE \* raise ValueError("MD5 checksum mismatch ...")
                      /\ uploads' = uploads \cup {<<folder_id, file_name, "mismatch">>}
                      /\ Fault
                      /\ RetryExcept

(* ---------------------------------- main ------------------------------- *)
\* drive_service = get_drive_service(): not retried, an exception ends main
MainDriveService ==
    /\ pc = "main_auth"
    /\ UNCHANGED folderVars
    /\ UNCHANGED pageVars
    /\ UNCHANGED pureVars
    /\ api' = <<>>
    /\ \/ NoFault /\ pc' = "main_folder"
       \/ faults < MaxFaults /\ faults' = faults + 1 /\ pc' = "aborted"
    /\ UNCHANGED <<storeVars, fsVars, runVars, issueVars, dlVars, retryVars, faulty, histVars>>

\* newspapers_folder_id = get_or_create_drive_folder(drive_service, TOP_FOLDER_NAME)
MainTopFolder ==
    /\ pc = "main_folder"
    /\ UNCHANGED folderVars
    /\ UNCHANGED pageVars
    /\ UNCHANGED pureVars
    /\ get_or_create_drive_folder(TOP_FOLDER_NAME, NoId)
    /\ CASE ret'.kind = "value" ->
              /\ top_id' = ret'.val
              /\ resolved' = resolved \cup {<<NoId, TOP_FOLDER_NAME>>}
              /\ pc' = "main_share"
         [] ret'.kind = "raise" -> pc' = "aborted" /\ UNCHANGED <<top_id, resolved>>
         [] OTHER -> pc' = pc /\ UNCHANGED <<top_id, resolved>>
    /\ UNCHANGED <<perms, fsVars, retry_count, frag_count, processed_issues, issueVars, dlVars>>
    /\ UNCHANGED <<uploads, dl_log>>

\* share_drive_folder(drive_service, newspapers_folder_id, SHARED_EMAIL), then the
\* scraper is constructed with drive_parent_folder_id = newspapers_folder_id
MainShare ==
    /\ pc = "main_share"
    /\ UNCHANGED folderVars
    /\ UNCHANGED pageVars
    /\ UNCHANGED pureVars
    /\ share_drive_folder(top_id, SHARED_EMAIL)
    /\ CASE ret'.kind = "value" -> pc' = "scrape"
         [] ret'.kind = "raise" -> pc' = "aborted"
         [] OTHER -> pc' = pc
    /\ UNCHANGED <<drive, nextId, fsVars, runVars, issueVars, dlVars, histVars>>

(* ------------------------- scrape_by_date_range ------------------------ *)
\* what became of one search result
Processed(i, res) == [issue |-> i, result |-> res]

\* issue = self.process_search_result(result), for the next result of the page
\* for i, result in enumerate(results): each pass takes the next result
NextFragment_Stuck(n) == n
NextFragment(n) == n + 1

ProcessSearchResult ==
    /\ pc = "scrape"
    /\ UNCHANGED folderVars
    /\ UNCHANGED pureVars
    /\ frag_count < results
    /\ frag_count' = NextFragment(frag_count)
    /\ api' = <<>>
    /\ results' = results
    /\ \/ \* no manifest id, or an exception: None, the loop goes on
          /\ pc' = pc
          /\ frag_log' = Append(frag_log, Processed(NoIssue, "None"))
          /\ UNCHANGED issueVars
       \/ \E i \in Issues :
             /\ issue' = i
             /\ jp2_urls' = <<>>
             /\ idx' = 0
             /\ success_count' = 0
             /\ outcome' = <<>>
             /\ title_folder_id' = NoId
             /\ date_folder_id' = NoId
             /\ result' = "none"
             /\ pc' = "issue"
             /\ frag_log' = frag_log
    /\ UNCHANGED <<storeVars, fsVars, retry_count, top_id, processed_issues, dlVars, retryVars, faultVars, histVars>>

\* if success:
ShouldRecord_Always(success) == TRUE
ShouldRecord(success) == success = "True"

\* if success: processed_issues.append(issue)
RecordIssue ==
    /\ pc = "issue_done"
    /\ UNCHANGED folderVars
    /\ UNCHANGED pureVars
    /\ results' = results
    /\ frag_log' = Append(frag_log, Processed(issue, result))
    /\ processed_issues' = IF ShouldRecord(result) THEN Append(processed_issues, issue) ELSE processed_issues
    /\ pc' = "scrape"
    /\ api' = <<>>
    /\ UNCHANGED <<storeVars, fsVars, retry_count, top_id, frag_count, issueVars, dlVars, retryVars, faultVars, histVars>>

\* return processed_issues
ScrapeReturn ==
    /\ pc = "scrape"
    /\ UNCHANGED folderVars
    /\ UNCHANGED pageVars
    /\ UNCHANGED pureVars
    /\ frag_count = results
    /\ pc' = "finished"
    /\ api' = <<>>
    /\ UNCHANGED <<storeVars, fsVars, runVars, issueVars, dlVars, retryVars, faultVars, histVars>>

(* ----------------------- download_newspaper_issue ---------------------- *)
\* return success_count == len(jp2_urls)
IssueSuccess_Any(count, urls) == count >= 1
IssueSuccess(count, urls) == count = Len(urls)

\* success_count += 1 for an asset found on Drive
SkipCount_Forgotten(count) == count
SkipCount(count) == count + 1

\* file_path.unlink() after the upload
Unlink_Kept(files, path) == files
Unlink(files, path) == [files EXCEPT ![path] = Absent]

PyBool(b) == IF b THEN "True" ELSE "False"
\* success_count += 1, after upload_to_drive returned
UploadCount_Forgotten(count) == count
UploadCount(count) == count + 1
\* for file_url in jp2_urls: the asset after asset i
NextAsset_Skipping(i) == i + 2
NextAsset(i) == i + 1
SetOutcome(o) == [outcome EXCEPT ![idx] = o]

\* if not jp2_urls:
NoAssets_Ignored(urls) == FALSE
NoAssets(urls) == urls = <<>>

\* folder_path.mkdir, jp2_urls = self.extract_jp2_from_manifest_data(manifest_url),
\* return False if the list is empty
IssueResolve ==
    /\ pc = "issue"
    /\ UNCHANGED folderVars
    /\ UNCHANGED pageVars
    /\ UNCHANGED pureVars
    /\ local_dirs' = local_dirs \cup {CurDir}
    /\ api' = <<"get_manifest">>
    /\ \E urls \in Manifests :
          /\ jp2_urls' = urls
          /\ outcome' = [i \in 1..Len(urls) |-> "pending"]
          /\ IF NoAssets(urls)
             THEN result' = "False" /\ pc' = "issue_done"
             ELSE result' = result /\ pc' = "title_folder"
    /\ UNCHANGED <<storeVars, local_files, runVars, issue, idx, success_count, title_folder_id, date_folder_id>>
    /\ UNCHANGED <<dlVars, retryVars, faultVars, histVars>>

\* title_folder_id = get_or_create_drive_folder(drive_service, issue.title, parent_id=...)
IssueTitleFolder ==
    /\ pc = "title_folder"
    /\ UNCHANGED folderVars
    /\ UNCHANGED pageVars
    /\ UNCHANGED pureVars
    /\ get_or_create_drive_folder(issue.title, top_id)
    /\ CASE ret'.kind = "value" ->
              /\ title_folder_id' = ret'.val
              /\ resolved' = resolved \cup {<<top_id, issue.title>>}
              /\ pc' = "date_folder"
              /\ UNCHANGED result
         [] ret'.kind = "raise" ->
              \* caught by the outer except: return False
              /\ result' = "False"
              /\ pc' = "issue_done"
              /\ UNCHANGED <<title_folder_id, resolved>>
         [] OTHER -> UNCHANGED <<pc, title_folder_id, resolved, result>>
    /\ UNCHANGED <<perms, fsVars, runVars, issue, jp2_urls, idx, success_count, outcome, date_folder_id>>
    /\ UNCHANGED <<dlVars, uploads, dl_log>>

\* date_folder_id = get_or_create_drive_folder(drive_service, issue.date, parent_id=title_folder_id)
\* success_count = 0
IssueDateFolder ==
    /\ pc = "date_folder"
    /\ UNCHANGED folderVars
    /\ UNCHANGED pageVars
    /\ UNCHANGED pureVars
    /\ get_or_create_drive_folder(issue.date, title_folder_id)
    /\ CASE ret'.kind = "value" ->
              /\ date_folder_id' = ret'.val
              /\ resolved' = resolved \cup {<<title_folder_id, issue.date>>}
              /\ success_count' = 0
              /\ idx' = 1
              /\ pc' = "asset"
              /\ UNCHANGED result
         [] ret'.kind = "raise" ->
              /\ result' = "False"
              /\ pc' = "issue_done"
              /\ UNCHANGED <<date_folder_id, resolved, success_count, idx>>
         [] OTHER -> UNCHANGED <<pc, date_folder_id, resolved, success_count, idx, result>>
    /\ UNCHANGED <<perms, fsVars, runVars, issue, jp2_urls, outcome, title_folder_id>>
    /\ UNCHANGED <<dlVars, uploads, dl_log>>

\* for file_url in jp2_urls: if date_folder_id and file_exists_in_drive_folder(...)
AssetExistsCheck ==
    /\ pc = "asset"
    /\ UNCHANGED folderVars
    /\ UNCHANGED pageVars
    /\ UNCHANGED pureVars
    /\ idx <= Len(jp2_urls)
    /\ date_folder_id # NoId
    /\ api' = <<"list">>
    /\ \/ \* files().list raises: caught by the outer except, return False
          /\ Fault
          /\ faulty' = FALSE
          /\ result' = "False"
          /\ pc' = "issue_done"
          /\ UNCHANGED <<idx, success_count, outcome>>
       \/ \* found: counted, and the loop continues with the next asset
          /\ FileQuery(CurName, date_folder_id) # {}
          /\ NoFault
          /\ faulty' = FALSE
          /\ success_count' = SkipCount(success_count)
          /\ outcome' = SetOutcome("skipped")
          /\ idx' = NextAsset(idx)
          /\ pc' = pc
          /\ UNCHANGED result
       \/ \* not found: on to self.download_file(file_url, file_path)
          /\ FileQuery(CurName, date_folder_id) = {}
          /\ NoFault
          /\ faulty' = FALSE
          /\ pc' = "dl_start"
          /\ UNCHANGED <<idx, success_count, outcome, result>>
    /\ UNCHANGED <<storeVars, fsVars, runVars, issue, jp2_urls, title_folder_id, date_folder_id>>
    /\ UNCHANGED <<dlVars, retryVars, histVars>>

\* if self.download_file(file_url, file_path): ... else the next asset
\* if self.download_file(file_url, file_path):
Downloaded_Any(r) == TRUE
Downloaded(r) == r = "True"

AssetDownloaded ==
    /\ pc = "dl_ret"
    /\ UNCHANGED folderVars
    /\ UNCHANGED pageVars
    /\ UNCHANGED pureVars
    /\ api' = <<>>
    /\ IF Downloaded(dl_result)
       THEN pc' = "upload" /\ UNCHANGED <<idx, outcome>>
       ELSE /\ outcome' = SetOutcome("failed")
            /\ idx' = NextAsset(idx)
            /\ pc' = "asset"
    /\ dl_attempt' = 0
    /\ dl_result' = "pending"
    /\ dl_requests' = 0
    /\ dl_sleeps' = <<>>
    /\ dl_errors' = <<>>
    /\ UNCHANGED <<storeVars, fsVars, runVars, issue, jp2_urls, success_count, title_folder_id, date_folder_id, result>>
    /\ UNCHANGED <<retryVars, faultVars, histVars>>

\* try: upload_to_drive(...); success_count += 1; file_path.unlink()
\* except Exception: logged, the loop goes on
AssetUpload ==
    /\ pc = "upload"
    /\ UNCHANGED folderVars
    /\ UNCHANGED pageVars
    /\ UNCHANGED pureVars
    /\ upload_to_drive(CurPath, CurName, date_folder_id)
    /\ CASE ret'.kind = "value" ->
              /\ success_count' = UploadCount(success_count)
              /\ \/ /\ NoFault
                    /\ local_files' = Unlink(local_files, CurPath)
                    /\ outcome' = SetOutcome("verified")
                 \/ \* unlink raises an OSError: caught and logged, the count stays
                    /\ faults < MaxFaults
                    /\ faults' = faults + 1
                    /\ local_files' = local_files
                    /\ outcome' = SetOutcome("verified_kept")
              /\ idx' = NextAsset(idx)
              /\ pc' = "asset"
         [] ret'.kind = "raise" ->
              /\ outcome' = SetOutcome("failed")
              /\ idx' = NextAsset(idx)
              /\ pc' = "asset"
              /\ UNCHANGED <<success_count, local_files>>
         [] OTHER -> UNCHANGED <<pc, idx, success_count, outcome, local_files>>
    /\ UNCHANGED <<perms, local_dirs, runVars, issue, jp2_urls, title_folder_id, date_folder_id, result>>
    /\ UNCHANGED <<dlVars, resolved, create_called, dl_log>>

\* return success_count == len(jp2_urls)
IssueReturn ==
    /\ pc = "asset"
    /\ UNCHANGED folderVars
    /\ UNCHANGED pageVars
    /\ UNCHANGED pureVars
    /\ idx > Len(jp2_urls)
    /\ result' = PyBool(IssueSuccess(success_count, jp2_urls))
    /\ pc' = "issue_done"
    /\ api' = <<>>
    /\ UNCHANGED <<storeVars, fsVars, runVars, issue, jp2_urls, idx, success_count, outcome, title_folder_id, date_folder_id>>
    /\ UNCHANGED <<dlVars, retryVars, faultVars, histVars>>

(* ------------------------------ the pipeline --------------------------- *)
\* main() starts against an empty remote store and an empty download directory;
\* the search page will hold some number of results
Init ==
    /\ drive = {}
    /\ nextId = 1
    /\ perms = {}
    /\ local_files = [p \in Paths |-> Absent]
    /\ local_dirs = {}
    /\ pc = "main_auth"
    /\ retry_count = DefaultRetryCount
    /\ top_id = NoId
    /\ frag_count = 0
    /\ processed_issues = <<>>
    /\ issue = NoIssue
    /\ jp2_urls = <<>>
    /\ idx = 0
    /\ success_count = 0
    /\ outcome = <<>>
    /\ title_folder_id = NoId
    /\ date_folder_id = NoId
    /\ result = "none"
    /\ dl_attempt = 0
    /\ dl_result = "pending"
    /\ dl_requests = 0
    /\ dl_sleeps = <<>>
    /\ dl_errors = <<>>
    /\ r_attempt = 0
    /\ r_delay = RetryInitialDelay
    /\ r_calls = 0
    /\ r_sleeps = <<>>
    /\ ret = NoRet
    /\ api = <<>>
    /\ faults = 0
    /\ faulty = FALSE
    /\ resolved = {}
    /\ create_called = {}
    /\ uploads = {}
    /\ dl_log = <<>>
    /\ folder_cache = {}
    /\ call = NoCall
    /\ results \in 0..MaxFragments
    /\ frag_log = <<>>
    /\ search_result = NoSearchResult
    /\ response = NoResponse
    /\ returned = NoReturn
    /\ callers = NoCallers

Next ==
    \/ MainDriveService
    \/ MainTopFolder
    \/ MainShare
    \/ ProcessSearchResult
    \/ IssueResolve
    \/ IssueTitleFolder
    \/ IssueDateFolder
    \/ AssetExistsCheck
    \/ DownloadFileEnter
    \/ DownloadFileAttempt
    \/ AssetDownloaded
    \/ AssetUpload
    \/ IssueReturn
    \/ RecordIssue
    \/ ScrapeReturn

Spec == Init /\ [][Next]_vars

(* ----------------------- download_file called directly ----------------- *)
\* an entry of dl_log: the call, what the path held before it, what it did
LogEntry(path, before, requests, sleeps, errors, res, after) ==
    [path |-> path, before |-> before, requests |-> requests, sleeps |-> sleeps,
     errors |-> errors, result |-> res, after |-> after]
\* a scraper constructed with some retry_count, over a download directory that
\* holds at most one file, left by an earlier run
InitDownload ==
    /\ drive = {}
    /\ nextId = 1
    /\ perms = {}
    /\ \E p \in Paths :
          \E c \in {Absent, Served(Url(p.name)), Truncated(Url(p.name))} :
             local_files = [q \in Paths |-> IF q = p THEN c ELSE Absent]
    /\ local_dirs = {}
    /\ pc = "dl_idle"
    /\ retry_count \in 0..MaxRetryCount
    /\ top_id = NoId
    /\ frag_count = 0
    /\ processed_issues = <<>>
    /\ issue = NoIssue
    /\ jp2_urls = <<>>
    /\ idx = 0
    /\ success_count = 0
    /\ outcome = <<>>
    /\ title_folder_id = NoId
    /\ date_folder_id = NoId
    /\ result = "none"
    /\ dl_attempt = 0
    /\ dl_result = "pending"
    /\ dl_requests = 0
    /\ dl_sleeps = <<>>
    /\ dl_errors = <<>>
    /\ r_attempt = 0
    /\ r_delay = RetryInitialDelay
    /\ r_calls = 0
    /\ r_sleeps = <<>>
    /\ ret = NoRet
    /\ api = <<>>
    /\ faults = 0
    /\ faulty = FALSE
    /\ resolved = {}
    /\ create_called = {}
    /\ uploads = {}
    /\ dl_log = <<>>
    /\ folder_cache = {}
    /\ call = NoCall
    /\ results = 0
    /\ frag_log = <<>>
    /\ search_result = NoSearchResult
    /\ response = NoResponse
    /\ returned = NoReturn
    /\ callers = NoCallers

\* scraper.download_file(url, download_dir / title / date / filename)
CallDownloadFile ==
    /\ pc = "dl_idle"
    /\ UNCHANGED folderVars
    /\ UNCHANGED pageVars
    /\ UNCHANGED pureVars
    /\ Len(dl_log) < MaxCalls
    /\ \E i \in Issues, u \in Urls :
          LET path == [title |-> i.title, date |-> i.date, name |-> UrlFilename(u)]
          IN  /\ issue' = i
              /\ jp2_urls' = <<u>>
              /\ idx' = 1
              /\ outcome' = <<"pending">>
              /\ dl_log' = Append(dl_log, LogEntry(path, local_files[path], 0, <<>>, <<>>, "pending", Absent))
    /\ pc' = "dl_start"
    /\ api' = <<>>
    /\ UNCHANGED <<storeVars, fsVars, runVars, success_count, title_folder_id, date_folder_id, result>>
    /\ UNCHANGED <<dlVars, retryVars, faultVars, resolved, create_called, uploads>>

\* the call returns to its caller
DownloadFileReturns ==
    /\ pc = "dl_ret"
    /\ UNCHANGED folderVars
    /\ UNCHANGED pageVars
    /\ UNCHANGED pureVars
    /\ dl_log' = [dl_log EXCEPT ![Len(dl_log)] =
                     LogEntry(CurPath, @.before, dl_requests, dl_sleeps, dl_errors, dl_result, local_files[CurPath])]
    /\ pc' = "dl_idle"
    /\ api' = <<>>
    /\ UNCHANGED <<storeVars, fsVars, runVars, issueVars, dlVars, retryVars, faultVars>>
    /\ UNCHANGED <<resolved, create_called, uploads>>

NextDownload ==
    \/ CallDownloadFile
    \/ DownloadFileEnter
    \/ DownloadFileAttempt
    \/ DownloadFileReturns

SpecDownload == InitDownload /\ [][NextDownload]_vars

(* ---------------- GoogleDriveUploader.get_or_create_folder --------------- *)
\* cache_key = f"{parent_id}:{folder_name}"
CacheKey(folder_name, parent_id) == <<parent_id, folder_name>>
\* cache_key in self.folder_cache
CacheHit(key) == {e \in folder_cache : e[1] = key}

\* one call of GoogleDriveUploader.get_or_create_folder: not retried, an
\* exception is logged and raised to the caller
get_or_create_folder(folder_name, parent_id) ==
    LET cache_key == CacheKey(folder_name, parent_id) IN
    \/ \* answered from the cache
       /\ \E e \in CacheHit(cache_key) : ret' = Returned(e[2])
       /\ NoFault
       /\ api' = <<>>
       /\ UNCHANGED <<drive, nextId, folder_cache, create_called>>
    \/ \* files().list raises
       /\ CacheHit(cache_key) = {}
       /\ Fault
       /\ ret' = Raised
       /\ api' = <<"list">>
       /\ UNCHANGED <<drive, nextId, folder_cache, create_called>>
    \/ \* the query finds a folder: folders[0]
       /\ CacheHit(cache_key) = {}
       /\ \E f \in FolderQuery(folder_name, parent_id) :
             /\ ret' = Returned(f.id)
             /\ folder_cache' = folder_cache \cup {<<cache_key, f.id>>}
       /\ NoFault
       /\ api' = <<"list">>
       /\ UNCHANGED <<drive, nextId, create_called>>
    \/ \* nothing found and files().create raises, before the store made the folder
       \* or after it
       /\ CacheHit(cache_key) = {}
       /\ FolderQuery(folder_name, parent_id) = {}
       /\ Fault
       /\ ret' = Raised
       /\ api' = <<"list", "create_folder">>
       /\ create_called' = create_called \cup {cache_key}
       /\ \/ UNCHANGED <<drive, nextId>>
          \/ /\ drive' = Create(Folder(nextId, folder_name, ParentOf(parent_id)))
             /\ nextId' = nextId + 1
       /\ UNCHANGED folder_cache
    \/ \* nothing found: the folder is created and cached
       /\ CacheHit(cache_key) = {}
       /\ FolderQuery(folder_name, parent_id) = {}
       /\ drive' = Create(Folder(nextId, folder_name, ParentOf(parent_id)))
       /\ nextId' = nextId + 1
       /\ ret' = Returned(nextId)
       /\ folder_cache' = folder_cache \cup {<<cache_key, nextId>>}
       /\ NoFault
       /\ api' = <<"list", "create_folder">>
       /\ create_called' = create_called \cup {cache_key}

(* ------------------- get-or-create folder calls, directly --------------- *)
\* an uploader made as GoogleDriveUploader(root_folder_name=TOP_FOLDER_NAME)
FolderNames == {TOP_FOLDER_NAME} \cup Titles
\* remote stores without duplicate folders, as earlier runs may have left them
InitialStores ==
    { {},
      {Folder(1, TOP_FOLDER_NAME, RootId)},
      {Folder(1, TOP_FOLDER_NAME, RootId), Folder(2, "Dagens Nyheter", 1)} }

\* a Drive service and a GoogleDriveUploader whose cache is still empty, over a
\* remote store without duplicate folders
InitFolders ==
    /\ drive \in InitialStores
    /\ nextId = Cardinality(drive) + 1
    /\ perms = {}
    /\ local_files = [p \in Paths |-> Absent]
    /\ local_dirs = {}
    /\ pc = "folders"
    /\ retry_count = DefaultRetryCount
    /\ top_id = NoId
    /\ frag_count = 0
    /\ processed_issues = <<>>
    /\ issue = NoIssue
    /\ jp2_urls = <<>>
    /\ idx = 0
    /\ success_count = 0
    /\ outcome = <<>>
    /\ title_folder_id = NoId
    /\ date_folder_id = NoId
    /\ result = "none"
    /\ dl_attempt = 0
    /\ dl_result = "pending"
    /\ dl_requests = 0
    /\ dl_sleeps = <<>>
    /\ dl_errors = <<>>
    /\ r_attempt = 0
    /\ r_delay = RetryInitialDelay
    /\ r_calls = 0
    /\ r_sleeps = <<>>
    /\ ret = NoRet
    /\ api = <<>>
    /\ faults = 0
    /\ faulty = FALSE
    /\ resolved = {}
    /\ create_called = {}
    /\ uploads = {}
    /\ dl_log = <<>>
    /\ folder_cache = {}
    /\ call = NoCall
    /\ results = 0
    /\ frag_log = <<>>
    /\ search_result = NoSearchResult
    /\ response = NoResponse
    /\ returned = NoReturn
    /\ callers = NoCallers

\* the caller picks a name and a parent: None, or the id of a folder it knows
CallFolder ==
    /\ pc = "folders"
    /\ UNCHANGED pageVars
    /\ UNCHANGED pureVars
    /\ call.n < MaxCalls
    /\ \E fn \in {"pipeline", "uploader"}, name \in FolderNames, parent \in {NoId} \cup {f.id : f \in Folders} :
          call' = FolderCall(fn, name, parent, call.n + 1)
    /\ pc' = "folder_call"
    /\ api' = <<>>
    /\ UNCHANGED <<storeVars, fsVars, runVars, issueVars, dlVars, retryVars, faultVars, histVars, folder_cache>>

\* get_or_create_drive_folder(drive_service, name, parent_id), under wrapper_retry
PipelineFolderCall ==
    /\ pc = "folder_call"
    /\ UNCHANGED pageVars
    /\ UNCHANGED pureVars
    /\ call.fn = "pipeline"
    /\ get_or_create_drive_folder(call.name, call.parent)
    /\ CASE ret'.kind = "value" ->
              /\ resolved' = resolved \cup {<<call.parent, call.name>>}
              /\ pc' = "folders"
         [] ret'.kind = "raise" -> pc' = "folders" /\ UNCHANGED resolved
         [] OTHER -> UNCHANGED <<pc, resolved>>
    /\ UNCHANGED <<perms, fsVars, runVars, issueVars, dlVars, uploads, dl_log, folderVars>>

\* uploader.get_or_create_folder(name, parent_id)
UploaderFolderCall ==
    /\ pc = "folder_call"
    /\ UNCHANGED pageVars
    /\ UNCHANGED pureVars
    /\ call.fn = "uploader"
    /\ get_or_create_folder(call.name, call.parent)
    /\ faulty' = FALSE
    /\ resolved' = IF ret'.kind = "value" THEN resolved \cup {<<call.parent, call.name>>} ELSE resolved
    /\ pc' = "folders"
    /\ UNCHANGED <<perms, fsVars, runVars, issueVars, dlVars, uploads, dl_log, call>>
    /\ UNCHANGED <<r_attempt, r_delay, r_calls, r_sleeps>>

NextFolders ==
    \/ CallFolder
    \/ PipelineFolderCall
    \/ UploaderFolderCall

SpecFolders == InitFolders /\ [][NextFolders]_vars

(* ----------------------- share_drive_folder, directly ------------------ *)
\* the caller shares a folder it knows with the recipient
CallShare ==
    /\ pc = "folders"
    /\ UNCHANGED pageVars
    /\ UNCHANGED pureVars
    /\ call.n < MaxCalls
    /\ \E f \in Folders : call' = FolderCall("share", SHARED_EMAIL, f.id, call.n + 1)
    /\ pc' = "share_call"
    /\ api' = <<>>
    /\ UNCHANGED <<storeVars, fsVars, runVars, issueVars, dlVars, retryVars, faultVars, histVars, folder_cache>>

\* share_drive_folder(drive_service, folder_id, email), under wrapper_retry
ShareCall ==
    /\ pc = "share_call"
    /\ UNCHANGED pageVars
    /\ UNCHANGED pureVars
    /\ share_drive_folder(call.parent, call.name)
    /\ pc' = IF ret'.kind \in {"value", "raise"} THEN "folders" ELSE pc
    /\ UNCHANGED <<drive, nextId, fsVars, runVars, issueVars, dlVars, histVars, folderVars>>

NextShare ==
    \/ CallShare
    \/ ShareCall

SpecShare == InitFolders /\ [][NextShare]_vars

(* ------------------- two callers of a folder get-or-create ------------- *)
\* Nothing in the program serialises two runs, or two threads sharing one
\* uploader, that ask for the same folder: each call is a files().list and,
\* when that finds nothing, a files().create, and the store takes the calls of
\* the two callers in any order.
Other(c) == CHOOSE d \in Callers : d # c
\* between its first files().list and its return or raise
MidCall(c) == callers[c].pos \in {"listed", "retry"}
\* `if files:` / `if folders:`
Seen_Nothing(files) == "not_found"
Seen(files) == IF files = {} THEN "not_found" ELSE "found"
\* self.folder_cache[cache_key] = folder_id
CachePut(key, id) == {e \in folder_cache : e[1] # key} \cup {<<key, id>>}
RaceFault == faults < MaxFaults /\ faults' = faults + 1 /\ UNCHANGED faulty
\* a raise: the decorator of get_or_create_drive_folder calls it again (the
\* failures a run meets are fewer than RetryMaxAttempts), the uploader lets it out
AfterRaise(c) ==
    IF call.fn = "pipeline"
    THEN [callers EXCEPT ![c].pos = "retry", ![c].seen = "raised"]
    ELSE [callers EXCEPT ![c].pos = "done", ![c].seen = "raised", ![c].id = NoId]

\* both callers are given the same name and parent
RaceCall ==
    /\ pc = "folders"
    /\ \E fn \in {"pipeline", "uploader"}, name \in FolderNames, parent \in {NoId} \cup {f.id : f \in Folders} :
          call' = FolderCall(fn, name, parent, 1)
    /\ pc' = "race"
    /\ UNCHANGED <<storeVars, fsVars, runVars, issueVars, dlVars, retryVars, api, faultVars, histVars, folder_cache,
                   pageVars, pureVars>>

\* caller c enters the function, or its decorator calls the function again:
\* up to the answer of files().list
RaceList(c) ==
    /\ pc = "race"
    /\ callers[c].pos \in {"idle", "retry"}
    /\ callers[c].pos = "idle" => callers[c].n < MaxCalls
    /\ LET cache_key == CacheKey(call.name, call.parent)
           entered == [callers EXCEPT ![c].overlap = @ \/ (callers[c].pos = "idle" /\ MidCall(Other(c)))]
       IN \/ \* answered from the cache
             /\ call.fn = "uploader"
             /\ \E e \in CacheHit(cache_key) :
                   callers' = [entered EXCEPT ![c].pos = "done", ![c].seen = "cached", ![c].id = e[2]]
             /\ UNCHANGED <<folder_cache, faultVars>>
          \/ \* files().list raises
             /\ call.fn = "uploader" => CacheHit(cache_key) = {}
             /\ RaceFault
             /\ callers' = [entered EXCEPT ![c] = AfterRaise(c)[c], ![c].overlap = entered[c].overlap]
             /\ UNCHANGED folder_cache
          \/ \* files().list answers
             /\ call.fn = "uploader" => CacheHit(cache_key) = {}
             /\ LET files == FolderQuery(call.name, call.parent) IN
                   IF Seen(files) = "found"
                   THEN \E f \in files :
                           /\ callers' = [entered EXCEPT ![c].pos = "done", ![c].seen = "found", ![c].id = f.id]
                           /\ folder_cache' = IF call.fn = "uploader" THEN CachePut(cache_key, f.id) ELSE folder_cache
                   ELSE /\ callers' = [entered EXCEPT ![c].pos = "listed", ![c].seen = "not_found"]
                        /\ UNCHANGED folder_cache
             /\ UNCHANGED faultVars
    /\ UNCHANGED <<storeVars, fsVars, runVars, issueVars, dlVars, retryVars, api, histVars, call, pageVars>>
    /\ UNCHANGED <<pc, search_result, response, returned>>

\* caller c, having seen nothing, calls files().create
RaceCreate(c) ==
    /\ pc = "race"
    /\ callers[c].pos = "listed"
    /\ LET cache_key == CacheKey(call.name, call.parent)
           made == Folder(nextId, call.name, ParentOf(call.parent))
       IN \/ \* the folder is created
             /\ drive' = drive \cup {made}
             /\ nextId' = nextId + 1
             /\ callers' = [callers EXCEPT ![c].pos = "done", ![c].id = nextId]
             /\ folder_cache' = IF call.fn = "uploader" THEN CachePut(cache_key, nextId) ELSE folder_cache
             /\ UNCHANGED faultVars
          \/ \* files().create raises, before the store made the folder or after it
             /\ RaceFault
             /\ callers' = AfterRaise(c)
             /\ \/ UNCHANGED <<drive, nextId>>
                \/ drive' = drive \cup {made} /\ nextId' = nextId + 1
             /\ UNCHANGED folder_cache
    /\ UNCHANGED <<perms, fsVars, runVars, issueVars, dlVars, retryVars, api, histVars, call, pageVars>>
    /\ UNCHANGED <<pc, search_result, response, returned>>

\* the call of caller c is over
RaceReturn(c) ==
    /\ pc = "race"
    /\ callers[c].pos = "done"
    /\ callers' = [callers EXCEPT ![c].pos = "idle", ![c].n = @ + 1]
    /\ UNCHANGED <<storeVars, fsVars, runVars, issueVars, dlVars, retryVars, api, faultVars, histVars, folderVars,
                   pageVars>>
    /\ UNCHANGED <<pc, search_result, response, returned>>

NextRace ==
    \/ RaceCall
    \/ \E c \in Callers : RaceList(c)
    \/ \E c \in Callers : RaceCreate(c)
    \/ \E c \in Callers : RaceReturn(c)

SpecRace == InitFolders /\ [][NextRace]_vars

(* ------------------------------- properties ---------------------------- *)
AssetName(i) == UrlFilename(jp2_urls[i])
AssetKey(i) == <<date_folder_id, AssetName(i)>>
AssetPath(i) == [title |-> issue.title, date |-> issue.date, name |-> AssetName(i)]
\* how the upload attempts made so far for (folder, filename) ended
UploadOutcomes(key) == {u[3] : u \in {v \in uploads : <<v[1], v[2]>> = key}}

\* asset i succeeded: it was skipped because the destination folder holds a file
\* of its name, or it was downloaded and its upload passed the checksum check
AssetSucceeded(i) ==
    \/ outcome[i] = "skipped" /\ FileQuery(AssetName(i), date_folder_id) # {}
    \/ outcome[i] \in {"verified", "verified_kept"} /\ "match" \in UploadOutcomes(AssetKey(i))
AllAssetsSucceeded == \A i \in 1..Len(jp2_urls) : AssetSucceeded(i)

\* C1 as stated: download_newspaper_issue returns success if and only if every
\* asset location the resolver returned succeeded.
C1_SuccessIffAllAssets ==
    pc = "issue_done" => (result = "True" <=> AllAssetsSucceeded)

\* C1, amended: download_newspaper_issue returns success if and only if the
\* resolver returned at least one asset location and every one of them succeeded
\* (skipped as already on Drive, or downloaded and uploaded with a matching
\* checksum); one failed asset, or an empty list, makes the issue fail.
C1_SuccessIffAllOfSomeAssets ==
    pc = "issue_done" => (result = "True" <=> (jp2_urls # <<>> /\ AllAssetsSucceeded))

\* an issue of two assets returned success, one asset skipped and one verified
C1_Witness ==
    /\ pc = "issue_done"
    /\ result = "True"
    /\ \E i, j \in 1..Len(jp2_urls) : outcome[i] = "skipped" /\ outcome[j] = "verified"

\* C2: when every upload attempt made for an object met a checksum that differs
\* from the local one (or none), the asset is not counted as a success and the
\* issue is not marked successful: a mismatching upload is never accepted.
C2_MismatchNeverAccepted ==
    (pc = "issue_done" /\ result = "True") =>
        \A i \in 1..Len(jp2_urls) : UploadOutcomes(AssetKey(i)) # {"mismatch"}

\* C3: the remote store holds at most one file object of a given name under a
\* given parent folder.
C3_AtMostOneCopy ==
    \A f, g \in Files : (f.name = g.name /\ f.parent = g.parent) => f = g

(* ------------------------ download_file: C4 and C5 --------------------- *)
\* the direct calls that have returned
Done == {i \in 1..Len(dl_log) : dl_log[i].result # "pending"}
\* n delays of DownloadDelay
FixedDelays(n) == [i \in 1..n |-> DownloadDelay]
OnlyRequestErrors(e) == \A i \in 1..Len(e.errors) : e.errors[i] = "RequestException"

C5_ExactlyRetryCountAttempts ==
    \A i \in Done :
       dl_log[i].before = Absent =>
          IF dl_log[i].result = "True"
          THEN /\ dl_log[i].requests = Len(dl_log[i].errors) + 1
               /\ dl_log[i].sleeps = FixedDelays(dl_log[i].requests - 1)
          ELSE /\ dl_log[i].requests = retry_count
               /\ Len(dl_log[i].sleeps) = retry_count - 1
               /\ dl_log[i].sleeps = FixedDelays(Len(dl_log[i].sleeps))

\* C5, amended: with retry_count >= 1, a download whose every attempt fails with a
\* request error returns failure after exactly retry_count requests and
\* retry_count - 1 delays of 2, and one that succeeds at attempt k <= retry_count
\* made k requests and k - 1 delays of 2. A filesystem error is not retried: the
\* call returns failure at that attempt, without a further delay. With
\* retry_count = 0 the call makes no request and returns None.
C5_RetryOnRequestErrors ==
    \A i \in Done :
       dl_log[i].before = Absent =>
          LET e == dl_log[i] IN
          /\ retry_count = 0 => (e.result = "None" /\ e.requests = 0 /\ e.sleeps = <<>>)
          /\ e.result = "True" =>
                /\ OnlyRequestErrors(e)
                /\ e.requests = Len(e.errors) + 1
                /\ e.requests <= retry_count
                /\ e.sleeps = FixedDelays(e.requests - 1)
          /\ (retry_count >= 1 /\ e.result # "True" /\ OnlyRequestErrors(e)) =>
                /\ e.result = "False"
                /\ e.requests = retry_count
                /\ e.sleeps = FixedDelays(retry_count - 1)
          /\ ~OnlyRequestErrors(e) =>
                /\ e.result = "False"
                /\ e.errors[Len(e.errors)] = "OSError"
                /\ \A k \in 1..(Len(e.errors) - 1) : e.errors[k] = "RequestException"
                /\ e.requests = Len(e.errors)
                /\ e.requests <= retry_count
                /\ e.sleeps = FixedDelays(e.requests - 1)

\* a download with retry_count = 3 failed with a request error at each attempt
C5_Witness ==
    \E i \in Done :
       /\ retry_count = 3
       /\ dl_log[i].before = Absent
       /\ dl_log[i].result = "False"
       /\ dl_log[i].errors = <<"RequestException", "RequestException", "RequestException">>
       /\ dl_log[i].requests = 3
       /\ dl_log[i].sleeps = <<2, 2>>

(* ------------------------------ upload retry: C6 ----------------------- *)
\* the state an attempt of upload_to_drive leaves
AfterUploadAttempt == api = <<"upload">>
RECURSIVE Power(_, _)
Power(b, n) == IF n = 0 THEN 1 ELSE b * Power(b, n - 1)
\* the delay wrapper_retry sleeps after the i-th failed call
BackoffDelay(i) == RetryInitialDelay * Power(RetryBackoffFactor, i - 1)

\* C6 as stated: a failing upload is retried under the policy of download_file:
\* at most retry_count attempts, each delay the download delay.
C6_UploadUnderDownloadPolicy ==
    AfterUploadAttempt =>
       /\ r_calls <= retry_count
       /\ \A i \in 1..Len(r_sleeps) : r_sleeps[i] = DownloadDelay

\* C6, amended: a failing upload (remote error or checksum mismatch) is retried
\* under the policy of the retry decorator, which is not that of download_file:
\* at most 5 attempts whatever retry_count is, the delay after the i-th failed
\* attempt being 2^(i-1) (1, 2, 4, 8), and the error is raised to the caller
\* after the fifth failed attempt.
C6_UploadUnderDecoratorPolicy ==
    AfterUploadAttempt =>
       /\ r_calls <= RetryMaxAttempts
       /\ \A i \in 1..Len(r_sleeps) : r_sleeps[i] = BackoffDelay(i)
       /\ ret.kind = "retry" => (Len(r_sleeps) = r_calls /\ r_calls < RetryMaxAttempts /\ pc = "upload")
       /\ ret.kind = "value" => Len(r_sleeps) = r_calls - 1
       /\ ret.kind = "raise" => (r_calls = RetryMaxAttempts /\ Len(r_sleeps) = RetryMaxAttempts - 1)
       /\ ret.kind \in {"retry", "value", "raise"}

\* an upload failed five times, after delays of 1, 2, 4 and 8, and raised
C6_Witness ==
    /\ AfterUploadAttempt
    /\ ret = Raised
    /\ r_calls = 5
    /\ r_sleeps = <<1, 2, 4, 8>>
    /\ retry_count = 3

(* ------------------------------ skipping: C7 --------------------------- *)
\* the asset loop is about to look at an asset
AtAsset == pc = "asset" /\ idx <= Len(jp2_urls)

\* C7: before an asset is downloaded, the destination folder is queried for a
\* file of its name (the lookup is the one call the step makes, and the download
\* starts only when it found nothing); when one is present and the lookup
\* answers, the asset counts as a success, no download request and no upload
\* call is made for it, and the local files and the remote store stay as they were.
C7_PresentAssetSkipped ==
    [][ AtAsset =>
          /\ api' = <<"list">>
          /\ pc' = "dl_start" => FileQuery(CurName, date_folder_id) = {}
          /\ (FileQuery(CurName, date_folder_id) # {} /\ pc' # "issue_done") =>
                /\ success_count' = success_count + 1
                /\ outcome' = [outcome EXCEPT ![idx] = "skipped"]
                /\ idx' = idx + 1
                /\ pc' = "asset"
                /\ UNCHANGED <<storeVars, fsVars, dlVars, uploads>>
      ]_vars

\* an asset was skipped, the next is under way
C7_Witness ==
    /\ pc = "asset"
    /\ idx = 2
    /\ Len(jp2_urls) = 2
    /\ outcome[1] = "skipped"
    /\ success_count = 1

Resolving == pc \in {"main_folder", "title_folder", "date_folder", "folder_call"}
ResolvingKey ==
    CASE pc = "main_folder" -> CacheKey(TOP_FOLDER_NAME, NoId)
      [] pc = "title_folder" -> CacheKey(issue.title, top_id)
      [] pc = "date_folder" -> CacheKey(issue.date, title_folder_id)
      [] OTHER -> CacheKey(call.name, call.parent)

\* C9: within one run the resolutions of one (parent, name) make at most one
\* create-folder call, and a resolution of a pair that was resolved before is
\* answered without a call to the remote store.
C9_ResolvedOnceThenCached ==
    [][ Resolving =>
          /\ ResolvingKey \in resolved => api' = <<>>
          /\ ResolvingKey \in create_called =>
                \A k \in 1..Len(api') : api'[k] # "create_folder"
      ]_vars

\* C10: starting from a remote store without duplicate folders, after any
\* sequence of get-or-create calls of either implementation, calls that raise
\* and are retried included, at most one folder of a given name exists under a
\* given parent.
C10_NoDuplicateFolders ==
    \A f, g \in Folders : (f.name = g.name /\ f.parent = g.parent) => f = g

\* a create call raised after the store had made the folder; the retried call
\* found that folder and returned it
C10_Witness ==
    /\ pc = "folders"
    /\ call.fn = "pipeline"
    /\ ret.kind = "value"
    /\ r_calls = 2
    /\ api = <<"list">>
    /\ CacheKey(call.name, call.parent) \in create_called
    /\ \E f \in Folders : f.id = ret.val /\ f.name = call.name /\ f.parent = ParentOf(call.parent)

(* ------------------------------ sharing: C11 --------------------------- *)
\* a call of share_drive_folder is the next step: the folder and the recipient
Sharing == pc \in {"main_share", "share_call"}
SharedFolder == IF pc = "main_share" THEN top_id ELSE call.parent
SharedWith == IF pc = "main_share" THEN SHARED_EMAIL ELSE call.name

\* C11: a folder holds at most one permission of the recipient, however often the
\* share is repeated or retried; every call of share_drive_folder lists the
\* permissions first, and when the recipient is among them it makes no grant
\* call and leaves the permissions as they are.
C11_SharedAtMostOnce ==
    /\ [](\A p, q \in perms : (p.file = q.file /\ p.email = q.email) => p = q)
    /\ [][ Sharing =>
             /\ api'[1] = "list_permissions"
             /\ is_folder_shared_with(SharedFolder, SharedWith) =>
                   (perms' = perms /\ \A k \in 1..Len(api') : api'[k] # "grant_permission")
         ]_vars

\* a grant raised after the store had made it; the retried call found the
\* recipient in the list and granted nothing more
C11_Witness ==
    /\ pc = "folders"
    /\ call.fn = "share"
    /\ ret.kind = "value"
    /\ r_calls = 2
    /\ api = <<"list_permissions">>
    /\ Cardinality(PermissionsOf(call.parent, call.name)) = 1

(* --------------------------- the fair pipeline ------------------------- *)
\* the program is single-threaded and every call of it returns: it always
\* takes its next step
SpecLive == Init /\ [][Next]_vars /\ WF_vars(Next)

Successes(log) == SelectSeq(log, LAMBDA e : e.result = "True")
IssuesOf(log) == [k \in 1..Len(log) |-> log[k].issue]
IssuePcs == {"issue", "title_folder", "date_folder", "asset", "dl_start", "dl_try", "dl_ret",
             "upload", "issue_done"}
InLoop == pc \in {"scrape"} \cup IssuePcs

C13_EmptyAssetListFails ==
    /\ [](pc = "issue_done" /\ jp2_urls = <<>> => result = "False")
    /\ [](pc \in IssuePcs \ {"issue", "issue_done"} => jp2_urls # <<>>)
    /\ [][pc = "issue_done" /\ jp2_urls = <<>> => processed_issues' = processed_issues]_vars
C13_Witness ==
    /\ pc = "scrape"
    /\ frag_count = 2
    /\ jp2_urls = <<>>
    /\ Len(frag_log) = 2
    /\ frag_log[1].result = "True"
    /\ frag_log[2] = Processed(issue, "False")
    /\ processed_issues = <<frag_log[1].issue>>

AssetPcs == {"asset", "dl_start", "dl_try", "dl_ret", "upload"}

\* C19: processing is strictly sequential. A search result is taken up only
\* between issues, one at a time, and every earlier result has ended by then;
\* the steps of an issue leave the result counter and the issue alone. Within
\* an issue the assets are taken in resolver order, one at a time: every asset
\* before the current one has ended, the current and later ones have not,
\* a step moves on by exactly one asset and only when the current asset has
\* ended, and a step writes no local file and sends no upload but the current
\* asset's.
C19_StrictlySequential ==
    /\ [](Len(frag_log) = IF pc \in IssuePcs THEN frag_count - 1 ELSE frag_count)
    /\ [](pc \in AssetPcs =>
             /\ idx \in 1..(Len(jp2_urls) + 1)
             /\ pc # "asset" => idx <= Len(jp2_urls)
             /\ \A k \in 1..Len(jp2_urls) : (k < idx) <=> (outcome[k] # "pending"))
    /\ [][frag_count' # frag_count => pc = "scrape" /\ frag_count' = frag_count + 1]_vars
    /\ [][(pc \in IssuePcs \ {"issue_done"}) =>
             (issue' = issue /\ processed_issues' = processed_issues)]_vars
    /\ [][(pc \in AssetPcs) =>
             /\ jp2_urls' = jp2_urls
             /\ \/ idx' = idx /\ (pc' \in AssetPcs => outcome' = outcome)
                \/ idx' = idx + 1 /\ pc' = "asset" /\ outcome'[idx] # "pending"
             /\ idx <= Len(jp2_urls) =>
                   /\ \A q \in DOMAIN local_files : q # CurPath => local_files'[q] = local_files[q]
                   /\ \A u \in uploads' \ uploads : u[1] = date_folder_id /\ u[2] = CurName
          ]_vars
C19_Witness ==
    /\ pc = "upload"
    /\ frag_count = 2
    /\ Len(frag_log) = 1
    /\ frag_log[1].result = "True"
    /\ Len(jp2_urls) = 2
    /\ idx = 2
    /\ outcome = <<"skipped", "pending">>

\* C20: an exception of get_drive_service, or of the get-or-create or the
\* sharing of the top-level folder once the retry decorator has used up its
\* attempts, ends main before any search result is processed; nothing else
\* does: once the loop over the results has started, no step aborts the run.
C20_FatalInitElseContained ==
    /\ [](pc = "aborted" =>
             /\ frag_count = 0 /\ frag_log = <<>> /\ processed_issues = <<>>
             /\ uploads = {} /\ Files = {} /\ local_dirs = {})
    /\ [][pc = "main_auth" => pc' = IF faults' # faults THEN "aborted" ELSE "main_folder"]_vars
    /\ [][(pc \in {"main_folder", "main_share"}) =>
             /\ ret'.kind = "raise" <=> pc' = "aborted"
             /\ ret'.kind = "raise" => r_calls' = RetryMaxAttempts]_vars
    /\ [][pc' = "aborted" => pc \in {"main_auth", "main_folder", "main_share", "aborted"}]_vars
C20_Witness ==
    /\ pc = "aborted"
    /\ results = 2
    /\ top_id # NoId
    /\ ret.kind = "raise"
    /\ r_calls = RetryMaxAttempts
    /\ frag_count = 0

(* ------------------------- metadata extraction ------------------------- *)
\* Texts are sequences of chunks: a run of digits or letters, a blank, a
\* punctuation mark. The inner HTML of a search result is a sequence of
\* pieces, each a stretch of markup that one of the patterns may match;
\* re.search returns the leftmost match.
MaxHtml == 3

\* str.strip()
IsSpace(c) == c = " "
RECURSIVE LStrip(_)
LStrip(t) == IF t # <<>> /\ IsSpace(Head(t)) THEN LStrip(Tail(t)) ELSE t
RECURSIVE RStrip(_)
RStrip(t) == IF t # <<>> /\ IsSpace(t[Len(t)]) THEN RStrip(SubSeq(t, 1, Len(t) - 1)) ELSE t
Strip(t) == RStrip(LStrip(t))
\* str.replace(old, new), for one-character old and new
Replace(t, old, new) == [k \in 1..Len(t) |-> IF t[k] = old THEN new ELSE t[k]]
\* re.sub(r'[^\w\s-]', '', title)
Punctuation == {":", "/", "!"}
\* a chunk other than these stands for a run of letters and digits
IsAlnum(c) == c \notin Punctuation \cup {" ", "-", "_"}
\* \w: letters, digits and the underscore
IsWord(c) == IsAlnum(c) \/ c = "_"
KeepsTitleChar_Any(c) == TRUE
\* [^\w\s-] is removed
KeepsTitleChar(c) == IsWord(c) \/ IsSpace(c) \/ c = "-"
SanitizeTitle(t) == SelectSeq(t, KeepsTitleChar)
\* truthiness of an Optional[str]
Truthy(o) == o.some /\ o.val # <<>>

\* pieces of inner HTML
Piece(kind, text) == [kind |-> kind, text |-> text]
\* data-src="https://data.kb.se/iiif/3/{id}/..., {id} the text up to the next / or %
DataSrc(id) == Piece("data-src", id)
\* src="https://data.kb.se/iiif/3/{id}/...
Src(id) == Piece("src", id)
\* <p class="search-result-item-date">{text}</p>
DateElement(text) == Piece("date", text)
\* <title>{name} {date} | ...
TitleTag(date) == Piece("title", date)
\* bib{n}_{yyyy}{mm}{dd}_{...}.jp2
BibFilename(y, m, d) == Piece("bib", <<y, m, d>>)
\* markup no pattern matches
OtherMarkup == Piece("other", <<>>)

Date(y, sep, m, d) == <<y, sep, m, sep, d>>
Pieces ==
    { DataSrc(<<"bib1">>), DataSrc(<<>>), Src(<<"bib2">>),
      DateElement(<<>>), DateElement(<<" ">>), DateElement(<<" ">> \o Date("1865", "-", "01", "02")),
      TitleTag(Date("1865", "-", "01", "03")), BibFilename("1865", "01", "04"), OtherMarkup }
RECURSIVE SeqsUpTo(_, _)
SeqsUpTo(S, n) == IF n = 0 THEN {<<>>} ELSE LET R == SeqsUpTo(S, n - 1) IN R \cup {Append(r, x) : r \in R, x \in S}
Htmls(n) == SeqsUpTo(Pieces, n)
\* what the browser reports for the date and title elements (none found, or
\* their .text), and the innerHTML; None as innerHTML stands for a WebDriver
\* call that raises (a stale element)
DomDates == {None, Some(<<" ">>), Some(<<" ">> \o Date("1865", "/", "01", "05") \o <<" ">>)}
DomTitles == {None, Some(<<" ">>), Some(<<"Dagens", " ", "Nyheter", ":">>),
              Some(<<"Dagens", "_", "Nyheter", ":">>), Some(<<":", "!">>)}
SearchResults(n) == [date : DomDates, title : DomTitles, inner_html : {None} \cup {Some(h) : h \in Htmls(n)}]

\* the patterns, piece by piece: ([^/%]+) and ([^<]+) need one character at least
PrimaryPattern(piece) == piece.kind = "data-src" /\ piece.text # <<>>
\* src="... is also found inside data-src="...
SecondaryPattern(piece) == piece.kind \in {"data-src", "src"} /\ piece.text # <<>>
DatePattern(piece) == piece.kind = "date" /\ piece.text # <<>>
TitlePattern(piece) == piece.kind = "title" /\ piece.text # <<>>
FilenamePattern(piece) == piece.kind = "bib"

\* re.search(pattern, html_content): the index of the leftmost match, 0 for no match
PatternMatches(pattern, piece) ==
    CASE pattern = "data-src" -> PrimaryPattern(piece)
      [] pattern = "src" -> SecondaryPattern(piece)
      [] pattern = "date" -> DatePattern(piece)
      [] pattern = "title" -> TitlePattern(piece)
      [] pattern = "filename" -> FilenamePattern(piece)
RECURSIVE Search(_, _, _)
Search(pattern, html, from) ==
    IF from > Len(html) THEN 0
    ELSE IF PatternMatches(pattern, html[from]) THEN from
    ELSE Search(pattern, html, from + 1)
re_search(pattern, html) == Search(pattern, html, 1)

\* extract_manifest_id_from_html
extract_manifest_id_from_html_SecondaryOnly(html) ==
    LET m == re_search("src", html)
    IN IF m # 0 THEN Some(html[m].text) ELSE None
extract_manifest_id_from_html(html) ==
    LET m1 == re_search("data-src", html)
        m2 == re_search("src", html)
    IN IF m1 # 0 THEN Some(html[m1].text)
       ELSE IF m2 # 0 THEN Some(html[m2].text)
       ELSE None

\* the value each date strategy produces from the piece it matched
DateElementValue(piece) == Strip(piece.text)
TitleTagValue(piece) == Strip(piece.text)
FilenameValue(piece) == Date(piece.text[1], "-", piece.text[2], piece.text[3])

\* extract_date_from_html
extract_date_from_html_FilenameFirst(html) ==
    LET m1 == re_search("date", html)
        m2 == re_search("title", html)
        m3 == re_search("filename", html)
    IN IF m3 # 0 THEN Some(FilenameValue(html[m3]))
       ELSE IF m1 # 0 THEN Some(DateElementValue(html[m1]))
       ELSE IF m2 # 0 THEN Some(TitleTagValue(html[m2]))
       ELSE None
extract_date_from_html(html) ==
    LET m1 == re_search("date", html)
        m2 == re_search("title", html)
        m3 == re_search("filename", html)
    IN IF m1 # 0 THEN Some(DateElementValue(html[m1]))
       ELSE IF m2 # 0 THEN Some(TitleTagValue(html[m2]))
       ELSE IF m3 # 0 THEN Some(FilenameValue(html[m3]))
       ELSE None

\* extract_filenames_from_html: list(set(matches)), in no particular order
extract_filenames_from_html(html) == {html[k].text : k \in {j \in 1..Len(html) : FilenamePattern(html[j])}}

\* NewspaperIssue(title=..., date=..., manifest_id=..., filenames=...), and None
NewspaperIssue(title, date, manifest_id, filenames) ==
    [some |-> TRUE, title |-> title, date |-> date, manifest_id |-> manifest_id, filenames |-> filenames]
NoNewspaperIssue == [some |-> FALSE, title |-> <<>>, date |-> <<>>, manifest_id |-> <<>>, filenames |-> {}]

StripText(o) == IF o.some THEN Some(Strip(o.val)) ELSE None

\* process_search_result: the whole body is inside try / except Exception
process_search_result(r) ==
    IF ~r.inner_html.some
    THEN NoNewspaperIssue
    ELSE LET inner_html == r.inner_html.val
             dom_date == StripText(r.date)
             dom_title == StripText(r.title)
             manifest_id == extract_manifest_id_from_html(inner_html)
             extracted_date == extract_date_from_html(inner_html)
             newspaper_date == IF ~Truthy(dom_date) /\ Truthy(extracted_date) THEN extracted_date ELSE dom_date
             potential_filenames == extract_filenames_from_html(inner_html)
         IN IF Truthy(manifest_id)
            THEN NewspaperIssue(
                     IF Truthy(dom_title) THEN Strip(SanitizeTitle(dom_title.val)) ELSE <<"Unknown">>,
                     IF Truthy(newspaper_date) THEN Replace(newspaper_date.val, "/", "-") ELSE <<"Unknown_Date">>,
                     manifest_id.val,
                     potential_filenames)
            ELSE NoNewspaperIssue

Return(fn, v) == [fn |-> fn, raised |-> "none", val |-> v]

InitIdle ==
    /\ drive = {}
    /\ nextId = 1
    /\ perms = {}
    /\ local_files = [p \in Paths |-> Absent]
    /\ local_dirs = {}
    /\ retry_count = DefaultRetryCount
    /\ top_id = NoId
    /\ frag_count = 0
    /\ processed_issues = <<>>
    /\ issue = NoIssue
    /\ jp2_urls = <<>>
    /\ idx = 0
    /\ success_count = 0
    /\ outcome = <<>>
    /\ title_folder_id = NoId
    /\ date_folder_id = NoId
    /\ result = "none"
    /\ dl_attempt = 0
    /\ dl_result = "pending"
    /\ dl_requests = 0
    /\ dl_sleeps = <<>>
    /\ dl_errors = <<>>
    /\ r_attempt = 0
    /\ r_delay = RetryInitialDelay
    /\ r_calls = 0
    /\ r_sleeps = <<>>
    /\ ret = NoRet
    /\ api = <<>>
    /\ faults = 0
    /\ faulty = FALSE
    /\ resolved = {}
    /\ create_called = {}
    /\ uploads = {}
    /\ dl_log = <<>>
    /\ folder_cache = {}
    /\ call = NoCall
    /\ results = 0
    /\ frag_log = <<>>
Idle == UNCHANGED <<storeVars, fsVars, runVars, issueVars, dlVars, retryVars, api, faultVars, histVars, folderVars,
                    pageVars>>

\* a scraper is handed one search result
InitExtract ==
    /\ InitIdle
    /\ pc = "extract"
    /\ search_result \in SearchResults(MaxHtml)
    /\ response = NoResponse
    /\ returned = NoReturn
    /\ callers = NoCallers

CallProcessSearchResult ==
    /\ pc = "extract"
    /\ pc' = "extracted"
    /\ returned' = Return("process_search_result", process_search_result(search_result))
    /\ UNCHANGED <<search_result, response, callers>>
    /\ Idle

CallExtractManifestId ==
    /\ pc = "extract"
    /\ search_result.inner_html.some
    /\ pc' = "extracted"
    /\ returned' = Return("extract_manifest_id_from_html", extract_manifest_id_from_html(search_result.inner_html.val))
    /\ UNCHANGED <<search_result, response, callers>>
    /\ Idle

CallExtractDate ==
    /\ pc = "extract"
    /\ search_result.inner_html.some
    /\ pc' = "extracted"
    /\ returned' = Return("extract_date_from_html", extract_date_from_html(search_result.inner_html.val))
    /\ UNCHANGED <<search_result, response, callers>>
    /\ Idle

NextExtract ==
    \/ CallProcessSearchResult
    \/ CallExtractManifestId
    \/ CallExtractDate

SpecExtract == InitExtract /\ [][NextExtract]_vars

Html == search_result.inner_html.val
Matches(pattern) == {k \in 1..Len(Html) : PatternMatches(pattern, Html[k])}
Leftmost(K) == CHOOSE k \in K : \A j \in K : k <= j
ProcessReturned == pc = "extracted" /\ returned.fn = "process_search_result"

\* C14: when neither the data-src pattern nor the src pattern matches the
\* inner HTML, process_search_result returns None and lets no exception out
\* (it lets none out in any case); an issue it returns has a non-empty
\* manifest_id, the capture of the leftmost data-src match when there is one
\* and of the leftmost src match otherwise.
C14_NoManifestIdNoIssue ==
    ProcessReturned =>
        /\ returned.raised = "none"
        /\ (~search_result.inner_html.some \/ (Matches("data-src") = {} /\ Matches("src") = {}))
              => ~returned.val.some
        /\ returned.val.some =>
              /\ returned.val.manifest_id # <<>>
              /\ returned.val.manifest_id =
                    IF Matches("data-src") # {}
                    THEN Html[Leftmost(Matches("data-src"))].text
                    ELSE Html[Leftmost(Matches("src"))].text
C14_Witness ==
    /\ ProcessReturned
    /\ returned.val.some
    /\ returned.val.manifest_id = <<"bib1">>
    /\ Len(Html) = 2
    /\ Html[1] = Src(<<"bib2">>)
    /\ Html[2] = DataSrc(<<"bib1">>)

ExtractedDate == pc = "extracted" /\ returned.fn = "extract_date_from_html"

\* C15: extract_date_from_html returns the value of the date element when
\* the date-element pattern matches, whatever the other two would give; else
\* the date token of the title tag when that pattern matches, whatever the
\* filename would give; else the date embedded in the filename; else None.
\* In process_search_result the text of the date element read from the page,
\* when not empty, is the date of the issue and the HTML is not consulted.
C15_DatePriorityOrder ==
    /\ ExtractedDate =>
          IF Matches("date") # {}
          THEN returned.val = Some(Strip(Html[Leftmost(Matches("date"))].text))
          ELSE IF Matches("title") # {}
          THEN returned.val = Some(Html[Leftmost(Matches("title"))].text)
          ELSE IF Matches("filename") # {}
          THEN returned.val = Some(FilenameValue(Html[Leftmost(Matches("filename"))]))
          ELSE returned.val = None
    /\ (ProcessReturned /\ returned.val.some /\ Truthy(StripText(search_result.date))) =>
          returned.val.date = Replace(Strip(search_result.date.val), "/", "-")
C15_Witness ==
    /\ ExtractedDate
    /\ Len(Html) = 3
    /\ Html[1] = BibFilename("1865", "01", "04")
    /\ Html[2] = TitleTag(Date("1865", "-", "01", "03"))
    /\ Html[3] = DateElement(<<" ">> \o Date("1865", "-", "01", "02"))
    /\ returned.val = Some(Date("1865", "-", "01", "02"))

\* the values the three strategies yield, in priority order, None for a
\* strategy whose pattern does not match
StrategyValues ==
    << IF Matches("date") # {} THEN Some(DateElementValue(Html[Leftmost(Matches("date"))])) ELSE None,
       IF Matches("title") # {} THEN Some(TitleTagValue(Html[Leftmost(Matches("title"))])) ELSE None,
       IF Matches("filename") # {} THEN Some(FilenameValue(Html[Leftmost(Matches("filename"))])) ELSE None >>
NonEmpty == {k \in 1..3 : Truthy(StrategyValues[k])}
FirstNonEmpty == IF NonEmpty = {} THEN None ELSE StrategyValues[Leftmost(NonEmpty)]

\* C16: the date extract_date_from_html returns is the first non-empty value
\* among the three strategies in priority order, and None only when no
\* strategy yields a non-empty value; an issue made from a search result
\* whose page gives no date text carries that date.
C16_FirstNonEmptyWins ==
    /\ ExtractedDate => returned.val = FirstNonEmpty
    /\ (ProcessReturned /\ returned.val.some /\ ~Truthy(StripText(search_result.date))) =>
          returned.val.date = IF FirstNonEmpty.some THEN Replace(FirstNonEmpty.val, "/", "-") ELSE <<"Unknown_Date">>

(* --------------------------- manifest resolver ------------------------- *)
\* A JSON value the walk meets is an object with an "items" list, a value in
\* which the key is not found (an object without it, a string, a list), or a
\* value "in" cannot be applied to (a number, null). An annotation has a body
\* with a string id, no body, a body without id, an id that is no string, or is
\* itself a number. The nodes of a document are its canvases, annotation
\* pages and annotations.
MaxNodes == 5

Node(shape, items) == [shape |-> shape, items |-> items]
Annotation(shape, id) == [shape |-> shape, id |-> id]
NoUrl == [dir |-> "", name |-> ""]
\* body ids: two assets, and a thumbnail that is no asset
BodyIds == {Url("p1.jp2"), Url("p2.jp2"), Url("p1.jpg")}
Suffix(name) == IF name \in Filenames THEN ".jp2" ELSE ".jpg"
\* body_id.endswith('.jp2')
endswith(body_id, suffix) == Suffix(body_id.name) = suffix

Annotations ==
    {Annotation("body_id", u) : u \in BodyIds}
       \cup {Annotation(sh, NoUrl) : sh \in {"no_body", "no_id", "id_not_string", "not_container"}}
Leaves == {Node("no_items", <<>>), Node("not_container", <<>>)}

RECURSIVE AnnotationSeqs(_)
AnnotationSeqs(n) ==
    IF n = 0 THEN {<<>>} ELSE {<<a>> \o r : a \in Annotations, r \in AnnotationSeqs(n - 1)}
PagesOfSize(n) == {Node("items", r) : r \in AnnotationSeqs(n - 1)} \cup (IF n = 1 THEN Leaves ELSE {})
RECURSIVE PageSeqs(_)
PageSeqs(n) ==
    IF n = 0 THEN {<<>>}
    ELSE UNION {{<<q>> \o r : q \in PagesOfSize(m), r \in PageSeqs(n - m)} : m \in 1..n}
CanvasesOfSize(n) == {Node("items", r) : r \in PageSeqs(n - 1)} \cup (IF n = 1 THEN Leaves ELSE {})
RECURSIVE CanvasSeqs(_)
CanvasSeqs(n) ==
    IF n = 0 THEN {<<>>}
    ELSE UNION {{<<c>> \o r : c \in CanvasesOfSize(m), r \in CanvasSeqs(n - m)} : m \in 1..n}
ManifestDocuments(max) == Leaves \cup UNION {{Node("items", r) : r \in CanvasSeqs(n)} : n \in 0..max}
\* requests.get raises, raise_for_status raises on a non-2xx status,
\* response.json() raises on a body that is no JSON, or a document arrives
Responses(max) ==
    {[status |-> st, data |-> Node("no_items", <<>>)] : st \in {"network_error", "http_error", "bad_json"}}
       \cup {[status |-> "ok", data |-> d] : d \in ManifestDocuments(max)}

\* the state of the walk: the list collected so far, and the exception under way
Walk(urls, exc) == [urls |-> urls, exc |-> exc]
\* jp2_urls.append(body_id)
Collect_Unique(urls, body_id) == IF \E k \in 1..Len(urls) : urls[k] = body_id THEN urls ELSE Append(urls, body_id)
Collect(urls, body_id) == Append(urls, body_id)

\* if 'body' in annotation and 'id' in annotation['body']: ...
VisitAnnotation(w, annotation) ==
    CASE annotation.shape = "not_container" -> Walk(w.urls, "TypeError")
      [] annotation.shape = "id_not_string" -> Walk(w.urls, "AttributeError")
      [] annotation.shape = "body_id" ->
            IF endswith(annotation.id, ".jp2") THEN Walk(Collect(w.urls, annotation.id), "none") ELSE w
      [] OTHER -> w
RECURSIVE VisitAnnotations(_, _)
VisitAnnotations(w, items) ==
    IF items = <<>> \/ w.exc # "none" THEN w
    ELSE VisitAnnotations(VisitAnnotation(w, Head(items)), Tail(items))
\* if 'items' in annotation_page: for annotation in annotation_page['items']
VisitPage(w, annotation_page) ==
    CASE annotation_page.shape = "not_container" -> Walk(w.urls, "TypeError")
      [] annotation_page.shape = "items" -> VisitAnnotations(w, annotation_page.items)
      [] OTHER -> w
RECURSIVE VisitPages(_, _)
VisitPages(w, items) ==
    IF items = <<>> \/ w.exc # "none" THEN w
    ELSE VisitPages(VisitPage(w, Head(items)), Tail(items))
\* if 'items' in canvas: for annotation_page in canvas['items']
VisitCanvas(w, canvas) ==
    CASE canvas.shape = "not_container" -> Walk(w.urls, "TypeError")
      [] canvas.shape = "items" -> VisitPages(w, canvas.items)
      [] OTHER -> w
RECURSIVE VisitCanvases(_, _)
VisitCanvases(w, items) ==
    IF items = <<>> \/ w.exc # "none" THEN w
    ELSE VisitCanvases(VisitCanvas(w, Head(items)), Tail(items))
\* if 'items' in manifest_data: for canvas in manifest_data['items']
VisitManifest(manifest_data) ==
    CASE manifest_data.shape = "not_container" -> Walk(<<>>, "TypeError")
      [] manifest_data.shape = "items" -> VisitCanvases(Walk(<<>>, "none"), manifest_data.items)
      [] OTHER -> Walk(<<>>, "none")

\* the try block of extract_jp2_from_manifest_data
Fetch(resp) ==
    CASE resp.status = "network_error" -> Walk(<<>>, "ConnectionError")
      [] resp.status = "http_error" -> Walk(<<>>, "HTTPError")
      [] resp.status = "bad_json" -> Walk(<<>>, "JSONDecodeError")
      [] OTHER -> VisitManifest(resp.data)
\* except Exception as e:
IsCaught_RequestsOnly(exc) == exc \in {"ConnectionError", "HTTPError"}
IsCaught(exc) == TRUE
\* extract_jp2_from_manifest_data
extract_jp2_from_manifest_data(resp) ==
    LET w == Fetch(resp)
    IN IF w.exc = "none" THEN Return("extract_jp2_from_manifest_data", w.urls)
       ELSE IF IsCaught(w.exc) THEN Return("extract_jp2_from_manifest_data", <<>>)
       ELSE [fn |-> "extract_jp2_from_manifest_data", raised |-> w.exc, val |-> <<>>]

\* the resolver is called for a manifest whose endpoint answers somehow
InitResolve ==
    /\ InitIdle
    /\ pc = "resolve"
    /\ search_result = NoSearchResult
    /\ response \in Responses(MaxNodes)
    /\ returned = NoReturn
    /\ callers = NoCallers

CallExtractJp2 ==
    /\ pc = "resolve"
    /\ pc' = "resolved"
    /\ returned' = extract_jp2_from_manifest_data(response)
    /\ UNCHANGED <<search_result, response, callers>>
    /\ Idle

NextResolve == CallExtractJp2
SpecResolve == InitResolve /\ [][NextResolve]_vars

Resolved == pc = "resolved" /\ returned.fn = "extract_jp2_from_manifest_data"
\* no value of the document is one the walk cannot handle
WellFormedAnnotation(a) == a.shape \in {"body_id", "no_body", "no_id"}
WellFormedPage(q) == q.shape # "not_container" /\ \A k \in 1..Len(q.items) : WellFormedAnnotation(q.items[k])
WellFormedCanvas(c) == c.shape # "not_container" /\ \A j \in 1..Len(c.items) : WellFormedPage(c.items[j])
WellFormed(d) == d.shape # "not_container" /\ \A i \in 1..Len(d.items) : WellFormedCanvas(d.items[i])

\* C17: the resolver lets no exception out: when the request fails, the
\* status is not 2xx, the body is no JSON, or the walk meets a value of a
\* shape it cannot handle, it returns the empty list.
C17_ResolverNeverRaises ==
    Resolved =>
        /\ returned.raised = "none"
        /\ (response.status # "ok" \/ ~WellFormed(response.data)) => returned.val = <<>>
C17_Witness ==
    /\ Resolved
    /\ response.status = "ok"
    /\ Len(response.data.items) = 2
    /\ response.data.items[1] = Node("items", <<Node("items", <<Annotation("body_id", Url("p1.jp2"))>>)>>)
    /\ response.data.items[2] = Node("not_container", <<>>)
    /\ returned.val = <<>>

\* the annotations of the document, by position <<canvas, page, annotation>>
Positions(d) ==
    {<<i, j, k>> \in (1..MaxNodes) \X (1..MaxNodes) \X (1..MaxNodes) :
        /\ i <= Len(d.items)
        /\ j <= Len(d.items[i].items)
        /\ k <= Len(d.items[i].items[j].items)}
At(d, pos) == d.items[pos[1]].items[pos[2]].items[pos[3]]
\* document order
Before(a, b) ==
    \/ a[1] < b[1]
    \/ a[1] = b[1] /\ a[2] < b[2]
    \/ a[1] = b[1] /\ a[2] = b[2] /\ a[3] < b[3]
AssetPositions(d) == {pos \in Positions(d) : At(d, pos).shape = "body_id" /\ Suffix(At(d, pos).id.name) = ".jp2"}
Rank(d, pos) == Cardinality({q \in AssetPositions(d) : Before(q, pos)}) + 1

\* C18: for a well-formed manifest the list returned holds, for every
\* annotation whose body id ends in .jp2, that id at the place the annotation
\* has in document order among such annotations, and nothing else: an id
\* that occurs twice is returned twice, and a canvas, page or annotation
\* without its child key adds nothing and hides no sibling.
C18_DocumentOrderNoDedup ==
    (Resolved /\ response.status = "ok" /\ WellFormed(response.data)) =>
        /\ Len(returned.val) = Cardinality(AssetPositions(response.data))
        /\ \A pos \in AssetPositions(response.data) :
              returned.val[Rank(response.data, pos)] = At(response.data, pos).id
C18_Witness ==
    /\ Resolved
    /\ response.status = "ok"
    /\ Len(response.data.items) = 2
    /\ response.data.items[1] = Node("items", <<Node("no_items", <<>>),
                                                Node("items", <<Annotation("body_id", Url("p2.jp2"))>>)>>)
    /\ response.data.items[2] = Node("no_items", <<>>)
    /\ returned.val = <<Url("p2.jp2")>>

(* ------------------------- syncing without failures -------------------- *)
\* no call has failed so far in the run
NoFailureSoFar == faults = 0
FilesIn(folder_id) == {o \in drive : o.kind = "file" /\ o.parent = folder_id}

\* C21: when an issue with n assets, none of them in the destination folder,
\* is synced without any failure, each asset is downloaded with one request
\* and uploaded with one call whose checksums match, so that the folder holds
\* one complete copy of each asset and nothing else from this sync, and the
\* sync returns True.
C21_CleanSyncOneOfEach ==
    /\ []((pc = "dl_ret" /\ NoFailureSoFar) => (dl_requests = 1 /\ dl_result = "True"))
    /\ [][(pc = "upload" /\ faults' = 0) =>
             (r_calls' = 1 /\ ret'.kind = "value" /\ uploads' = uploads \cup {<<date_folder_id, CurName, "match">>})]_vars
    /\ []((pc = "issue_done" /\ NoFailureSoFar /\ jp2_urls # <<>>
             /\ \A k \in 1..Len(jp2_urls) : outcome[k] # "skipped") =>
               /\ result = "True"
               /\ success_count = Len(jp2_urls)
               /\ \A k \in 1..Len(jp2_urls) :
                     /\ outcome[k] = "verified"
                     /\ UploadOutcomes(AssetKey(k)) = {"match"}
                     /\ FileQuery(AssetName(k), date_folder_id) =
                           {File(1, AssetName(k), date_folder_id, Served(jp2_urls[k]))}
               /\ Cardinality(FilesIn(date_folder_id)) = Len(jp2_urls))
C21_Witness ==
    /\ pc = "issue_done"
    /\ NoFailureSoFar
    /\ Len(jp2_urls) = 2
    /\ outcome = <<"verified", "verified">>
    /\ result = "True"
    /\ Cardinality(FilesIn(date_folder_id)) = 2

(* ------------------------------ syncing again -------------------------- *)
\* the issue under way was synced before in this run, with success
Resync == pc \in IssuePcs /\ \E k \in 1..Len(frag_log) : frag_log[k] = Processed(issue, "True")
InFolder(name, folder_id) == \E o \in drive : o.name = name /\ o.parent = folder_id
\* the resolver gave assets again: those looked at so far were skipped, and
\* the folder holds every one still to look at
SameAssets ==
    /\ jp2_urls # <<>>
    /\ \A k \in 1..Len(jp2_urls) :
          IF k < idx THEN outcome[k] = "skipped" ELSE InFolder(AssetName(k), date_folder_id)
Untouched == drive' = drive /\ fsVars' = fsVars /\ uploads' = uploads /\ dl_requests' = dl_requests

\* C22 as stated: a second sync of an issue whose first sync returned True
\* makes no download and no upload, creates no folder, leaves the remote store
\* and the local files as they were, and returns True.
C22_ResyncIsNoOp ==
    /\ [][(Resync /\ pc \in {"issue", "title_folder", "date_folder"}) => Untouched]_vars
    /\ [][(Resync /\ pc = "asset" /\ SameAssets) => Untouched]_vars
    /\ []((Resync /\ pc = "issue_done") => result = "True")

\* C22 amended: a second sync creates no folder; when the resolver gives the
\* assets again, it makes no download and no upload and leaves the remote
\* store and the local files as they were; it returns True unless the
\* resolver gave nothing or a query of the store raised, and then False.
C22_ResyncSkipsWorkDone ==
    /\ [][(Resync /\ pc \in {"issue", "title_folder", "date_folder"}) => Untouched]_vars
    /\ [][(Resync /\ pc = "asset" /\ SameAssets) =>
             /\ Untouched
             /\ pc' \in {"asset", "issue_done"}
             /\ pc' = "asset" => SameAssets']_vars
    /\ []((Resync /\ pc = "issue_done" /\ jp2_urls # <<>>
             /\ \A k \in 1..Len(jp2_urls) : outcome[k] = "skipped") =>
               result = "True" /\ success_count = Len(jp2_urls))
    /\ []((Resync /\ pc = "issue_done") =>
             /\ result \in {"True", "False"}
             /\ result = "False" =>
                   \/ jp2_urls = <<>>
                   \/ date_folder_id = NoId
                   \/ \E k \in 1..Len(jp2_urls) : outcome[k] = "pending" \/ ~InFolder(AssetName(k), date_folder_id)
                   \/ \E k \in 1..Len(jp2_urls) : outcome[k] \in {"failed"})
C22_Witness ==
    /\ pc = "issue_done"
    /\ Resync
    /\ frag_count = 2
    /\ outcome = <<"skipped", "skipped">>
    /\ result = "True"
    /\ create_called = {<<NoId, TOP_FOLDER_NAME>>, <<top_id, issue.title>>, <<title_folder_id, issue.date>>}

(* ------------------------- sanitized title and date -------------------- *)
CharsOf(t) == {t[k] : k \in 1..Len(t)}
IssueReturned == ProcessReturned /\ returned.val.some

\* C23 as stated: the title of an issue contains nothing but alphanumerics,
\* whitespace and hyphen, its date contains no "/", and a fragment with no
\* title element gives the title "Unknown".
C23_TitleAlnumSpaceHyphen ==
    IssueReturned =>
        /\ \A c \in CharsOf(returned.val.title) : IsAlnum(c) \/ IsSpace(c) \/ c = "-"
        /\ "/" \notin CharsOf(returned.val.date)
        /\ ~search_result.title.some => returned.val.title = <<"Unknown">>

\* C23 amended: the title of an issue contains nothing but word characters
\* (alphanumerics and the underscore), whitespace and hyphen, and every
\* punctuation character of the page's title is gone from it; its date
\* contains no "/" and is as long as the date it was made from; a fragment
\* with no title element, or with an empty one, gives the title "Unknown".
C23_TitleWordSpaceHyphen ==
    IssueReturned =>
        /\ \A c \in CharsOf(returned.val.title) : IsAlnum(c) \/ c = "_" \/ IsSpace(c) \/ c = "-"
        /\ CharsOf(returned.val.title) \cap Punctuation = {}
        /\ search_result.title.some =>
              \A c \in CharsOf(search_result.title.val) \ (Punctuation \cup {" "}) : c \in CharsOf(returned.val.title)
        /\ "/" \notin CharsOf(returned.val.date)
        /\ (search_result.date.some /\ Strip(search_result.date.val) # <<>>) =>
              /\ Len(returned.val.date) = Len(Strip(search_result.date.val))
              /\ \A k \in 1..Len(returned.val.date) :
                    returned.val.date[k] = IF Strip(search_result.date.val)[k] = "/" THEN "-" ELSE Strip(search_result.date.val)[k]
        /\ (~search_result.title.some \/ Strip(search_result.title.val) = <<>>) => returned.val.title = <<"Unknown">>
C23_Witness ==
    /\ IssueReturned
    /\ search_result.title = Some(<<"Dagens", "_", "Nyheter", ":">>)
    /\ returned.val.title = <<"Dagens", "_", "Nyheter">>
    /\ search_result.date = Some(<<" ">> \o Date("1865", "/", "01", "05") \o <<" ">>)
    /\ returned.val.date = Date("1865", "-", "01", "05")

(* --------------------------- path segments ----------------------------- *)
\* C30: every issue process_search_result returns has a non-empty title and
\* a non-empty date, whatever title and date text the fragment carries.
C30_NonEmptyTitleAndDate ==
    IssueReturned => (returned.val.title # <<>> /\ returned.val.date # <<>>)

(* ------------------------ get-or-create is not atomic ------------------ *)
\* the folders the two callers asked for
SameNameFolders == {o \in drive : o.kind = "folder" /\ o.name = call.name /\ o.parent = ParentOf(call.parent)}
Duplicated == Cardinality(SameNameFolders) >= 2
Overlapped == \E c \in Callers : callers[c].overlap

\* C24: two callers of a folder get-or-create for the same (parent, name)
\* can both see "not found" and both create: a state with two folders of the
\* same name under the same parent is reachable (C24_Witness); when no call
\* began while the other caller was inside one, no such state is reachable,
\* and the callers never hold different ids.
C24_DuplicatesOnlyWhenCallsOverlap ==
    (pc = "race" /\ ~Overlapped) =>
        /\ ~Duplicated
        /\ \A c, d \in Callers :
              (callers[c].pos = "done" /\ callers[d].pos = "done" /\ callers[c].id # NoId /\ callers[d].id # NoId)
                 => callers[c].id = callers[d].id
C24_Witness ==
    /\ pc = "race"
    /\ Duplicated
    /\ faults = 0
    /\ \A c \in Callers : callers[c].pos = "done" /\ callers[c].seen = "not_found" /\ callers[c].n = 0
    /\ callers[1].id # callers[2].id
    /\ Overlapped

(* -------------------------- the store only grows ----------------------- *)
MismatchCopies == {o \in Files : o.content = Garbled}

\* C25: no step of the pipeline deletes or overwrites a remote object: every
\* folder and file the store holds before a step it holds, unchanged, after
\* it, and so does every permission; an upload attempt that ends in a checksum
\* mismatch has added its copy to the folder, and the copy stays.
C25_RemoteStoreOnlyGrows ==
    /\ [][drive \subseteq drive' /\ perms \subseteq perms']_vars
    /\ [][(pc = "upload" /\ <<date_folder_id, CurName, "mismatch">> \in uploads' /\ drive' # drive /\ ret'.kind # "value") =>
             /\ Cardinality(drive') = Cardinality(drive) + 1
             /\ \E o \in drive' \ drive :
                   /\ o.kind = "file" /\ o.name = CurName /\ o.parent = date_folder_id
                   /\ o.content \in {Garbled, local_files[CurPath]}]_vars
    /\ [][Cardinality(MismatchCopies') >= Cardinality(MismatchCopies)]_vars
C25_Witness ==
    /\ pc = "finished"
    /\ \E u \in uploads : u[3] = "mismatch"
    /\ \E o \in MismatchCopies : FileQuery(o.name, o.parent) # {o}

(* --------------------- nothing local deleted on failure ---------------- *)
\* C26: a download attempt that fails after the target file was opened
\* leaves the partial file at the target path, and it is there when
\* download_file returns False; a downloaded file whose upload failed stays as
\* it was; the only step that removes a local file is the unlink after an
\* upload that returned.
C26_NoLocalDeleteOnFailure ==
    /\ [][\A p \in DOMAIN local_files :
             (local_files[p] # Absent /\ local_files'[p] = Absent) =>
                (pc = "upload" /\ p = CurPath /\ ret'.kind = "value" /\ outcome'[idx] = "verified")]_vars
    /\ [][(pc = "dl_try" /\ dl_errors' # dl_errors /\ api' = <<"get_asset", "iter_content">>) =>
             local_files'[CurPath] = Truncated(CurUrl)]_vars
    /\ [][(pc = "dl_try" /\ pc' = "dl_ret" /\ dl_result' = "False") =>
             /\ local_files[CurPath] = Truncated(CurUrl) => local_files'[CurPath] = Truncated(CurUrl)
             /\ local_files'[CurPath] \in {Absent, Truncated(CurUrl)}]_vars
    /\ [][(pc = "upload" /\ pc' = "asset" /\ outcome'[idx] = "failed") =>
             (local_files[CurPath] # Absent /\ local_files'[CurPath] = local_files[CurPath])]_vars
C26_Witness ==
    /\ pc = "issue_done"
    /\ Len(jp2_urls) = 2
    /\ outcome = <<"failed", "failed">>
    /\ \E u \in uploads : u[2] = AssetName(1) /\ u[3] # "match"
    /\ local_files[AssetPath(1)] = Served(jp2_urls[1])
    /\ local_files[AssetPath(2)] = Truncated(jp2_urls[2])

(* --------------------------- Transfer then Sync ------------------------ *)
UploadCalled(a) == \E k \in 1..Len(a) : a[k] = "upload"

\* C27: the upload of an asset is entered only from its download having
\* returned True, and upload calls are made nowhere else; a download that
\* returned False is followed by no upload call: the asset is marked failed and
\* the loop goes on with the next asset; so does an upload that raised; the
\* loop looks at every asset it reaches, and an issue whose loop ended before
\* an asset that follows a failed one was ended by a query of the store that
\* raised, not by the failure.
C27_TransferThenSync ==
    /\ [][(pc # "upload" /\ pc' = "upload") => (pc = "dl_ret" /\ dl_result = "True" /\ idx' = idx)]_vars
    /\ [][(uploads' # uploads \/ (api' # api /\ UploadCalled(api'))) => pc = "upload"]_vars
    /\ [][(pc = "dl_ret" /\ dl_result = "False") =>
             /\ pc' = "asset" /\ idx' = idx + 1
             /\ outcome'[idx] = "failed"
             /\ uploads' = uploads /\ drive' = drive /\ ~UploadCalled(api')]_vars
    /\ [][(pc = "upload" /\ ret'.kind = "raise") =>
             (pc' = "asset" /\ idx' = idx + 1 /\ outcome'[idx] = "failed")]_vars
    /\ [][(pc = "asset" /\ idx <= Len(jp2_urls)) =>
             /\ api' = <<"list">>
             /\ pc' \in {"asset", "dl_start", "issue_done"}
             /\ pc' = "issue_done" => (result' = "False" /\ outcome' = outcome)]_vars
    /\ []((pc = "issue_done" /\ \E k, j \in 1..Len(jp2_urls) : k < j /\ outcome[k] = "failed" /\ outcome[j] = "pending") =>
             (result = "False" /\ api = <<"list">>))
C27_Witness ==
    /\ pc = "issue_done"
    /\ Len(jp2_urls) = 2
    /\ outcome = <<"failed", "verified">>
    /\ UploadOutcomes(AssetKey(1)) = {}
    /\ UploadOutcomes(AssetKey(2)) = {"match"}
    /\ local_files[AssetPath(1)] = Truncated(jp2_urls[1])

(* ------------------------------ termination ---------------------------- *)
Terminated == pc \in {"finished", "aborted"}

\* C28: every run ends, whatever calls fail: a download makes at most
\* retry_count requests, a decorated call is called at most RetryMaxAttempts
\* times, the loops over the fragments and over the assets never pass the end
\* of their lists, every issue that is begun reaches the return of
\* download_newspaper_issue, and the run reaches its end and stays there.
C28_ProcessingTerminates ==
    /\ [](dl_requests <= retry_count /\ Len(dl_sleeps) < retry_count)
    /\ [](r_calls <= RetryMaxAttempts /\ Len(r_sleeps) < RetryMaxAttempts)
    /\ [](frag_count <= results /\ Len(frag_log) <= frag_count)
    /\ [](pc \in AssetPcs => (idx <= Len(jp2_urls) + 1 /\ success_count < idx))
    /\ [][Terminated => Terminated']_vars
    /\ (pc = "issue" ~> pc = "issue_done")
    /\ <>Terminated
C28_Witness ==
    /\ pc = "finished"
    /\ results = 2
    /\ faults = MaxFaults
    /\ \A k \in 1..2 : frag_log[k].issue # NoIssue /\ frag_log[k].result = "False"
    /\ \E k \in 1..Len(outcome) : outcome[k] = "failed"

(* -------------------------- end-to-end integrity ----------------------- *)
\* C29: whenever an asset is counted as uploaded and verified, the remote
\* copy made by that upload holds the complete content the asset endpoint
\* serves for the asset, and so does every copy of a verified asset in its
\* folder at the end of the issue.
C29_VerifiedMeansComplete ==
    /\ [][(pc = "upload" /\ ret'.kind = "value" /\ outcome'[idx] \in {"verified", "verified_kept"}) =>
             drive' \ drive = {File(ret'.val, CurName, date_folder_id, Served(CurUrl))}]_vars
    /\ []((pc = "issue_done") =>
             \A k \in 1..Len(jp2_urls) :
                outcome[k] \in {"verified", "verified_kept"} =>
                   \E o \in FileQuery(AssetName(k), date_folder_id) : o.content = Served(jp2_urls[k]))

====
